---- MODULE Spec2Model ----
(***************************************************************************)
(* The request layer of learn-fluent-nepali: HttpClient (httpBase), its    *)
(* registry of cancel tokens, the session-expiry flag of the response      *)
(* interceptor, and CacheManager.                                          *)
(*                                                                         *)
(* A call of get/post/put/delete is an async function: its body up to the  *)
(* `await` runs in one step (Get, Post, Put, Delete), the transport and    *)
(* the interceptors of the axios instance settle in a second step          *)
(* (Respond), and the continuation after the `await` runs in a third       *)
(* (Resume).  Other calls may run between these steps.                     *)
(*                                                                         *)
(* Spec follows the calls, the interceptor and the session at one reading  *)
(* of the clock.  SpecUnit calls CacheManager's methods and handleError    *)
(* directly and lets the clock advance.  SpecAuth follows what an outgoing *)
(* call is sent with, SpecSession the teardown and its redirect, SpecRead  *)
(* cacheable reads while the clock advances, SpecHook a component that     *)
(* uses useRequestCancellation, SpecService the operations of TaskService. *)
(*                                                                         *)
(* An optional JavaScript value is a set: {} is undefined/null, {v} is v.  *)
(***************************************************************************)
EXTENDS Integers, Sequences, FiniteSets, TLC

\* ---------------------------------------------------------------- bounds
NumCalls == 2        \* calls that may be unsettled at the same time
MaxTime == 1         \* Date.now() runs over 0..MaxTime
MaxTimers == 1       \* redirect timers that may be pending at the same time
SeenCap == 2         \* 401 responses counted between two resets of the flag
MaxParams == 2       \* names in the params object given to generateKey

Calls == 1..NumCalls

\* ------------------------------------------------------- optional values
None == {}
Some(v) == {v}
The(o) == CHOOSE v \in o : TRUE
\* JavaScript truthiness of an optional string: undefined and "" are falsy.
Truthy(o) == o # {} /\ o # {""}

\* ---------------------------------------------------------------- inputs
Url == "/tasks/7"
\* config.requestId: omitted or an explicit identifier.
RequestIdOpts == {None, Some("list:123")}
\* Response bodies of a successful transport call.
Data == {"d1", "d2"}
\* config.cache of a get call: omitted, or {key, ttl?, bypass?}.
CacheOpts ==
    {None}
      \cup {Some([key |-> "K", ttl |-> t, bypass |-> FALSE]) : t \in {None, Some(0)}}
      \cup {Some([key |-> "K", ttl |-> None, bypass |-> TRUE])}
\* Errors the transport rejects with (other than a cancellation).
\* response is None when no response was received, message is optional.
TransportErrors ==
    { [isCancel |-> FALSE, isAxiosError |-> TRUE, message |-> Some("Request failed with status code 401"),
       response |-> Some([status |-> 401, data |-> Some([detail |-> Some("token expired")])])],
      [isCancel |-> FALSE, isAxiosError |-> TRUE,
       message |-> Some("Network Error"), response |-> None] }
\* The record AuthProvider.login stores under nepali_user.
UserData == [token |-> "tok", tokenType |-> "Bearer", tenantSlug |-> "acme"]

\* ------------------------------------------------------------- constants
DEFAULT_TTL == 300000

VARIABLES
    now,            \* Date.now()
    cancelTokens,   \* Map<string, CancelTokenSource>: a set of <<requestId, token>>
    isRedirecting,  \* the module's flag
    storage,        \* localStorage: nepali_user and nepali_app_client
    cache,          \* CacheManager.cache: key -> entry
    calls,          \* the calls of get/post/put/delete, by slot
    timers,         \* pending setTimeout callbacks: the redirect destinations
    epoch,          \* since the last resetRedirectFlag: the 401 responses seen and
                    \* the calls the response interceptor made
    probe,          \* the last direct CacheManager / handleError call and its result
    component       \* a component that uses useRequestCancellation

vars == <<now, cancelTokens, isRedirecting, storage, cache, calls, timers, epoch, probe, component>>

\* ------------------------------------------------------------ Map helpers
MapHas(m, k) == \E p \in m : p[1] = k
MapGet(m, k) == {p[2] : p \in {q \in m : q[1] = k}}
MapDelete(m, k) == {p \in m : p[1] # k}
MapSet(m, k, v) == MapDelete(m, k) \cup {<<k, v>>}

\* ----------------------------------------------------------- CacheManager
cacheExpired(entry, t) == entry.expiresAt < t

\* CacheManager.get: the value returned
cacheGet(ch, key, t) ==
    IF key \notin DOMAIN ch THEN None
    ELSE IF cacheExpired(ch[key], t) THEN None
    ELSE Some(ch[key].data)

\* CacheManager.has: the value returned
cacheHas(ch, key, t) ==
    IF key \notin DOMAIN ch THEN FALSE
    ELSE IF cacheExpired(ch[key], t) THEN FALSE
    ELSE TRUE

cacheDelete(ch, key) == [k \in DOMAIN ch \ {key} |-> ch[k]]

\* CacheManager.get and CacheManager.has: the map they leave
cacheAfterLookup(ch, key, t) ==
    IF key \in DOMAIN ch /\ cacheExpired(ch[key], t) THEN cacheDelete(ch, key) ELSE ch

\* CacheManager.set; ttl is optional and defaults to DEFAULT_TTL
cacheSet(ch, key, data, ttl, t) ==
    LET life == IF ttl = None THEN DEFAULT_TTL ELSE The(ttl)
        entry == [data |-> data, timestamp |-> t, expiresAt |-> t + life]
    IN [k \in DOMAIN ch \cup {key} |-> IF k = key THEN entry ELSE ch[k]]

cacheClear(ch) == [k \in {} |-> ch[k]]

clearExpired(ch, t) ==
    [k \in {x \in DOMAIN ch : ~cacheExpired(ch[x], t)} |-> ch[k]]

\* Object.keys(params).sort() copied into a fresh object: JSON.stringify
\* lists the integer-like names in numeric order, then the other names in
\* code-unit order.  params is a sequence of <<name, value>> pairs in
\* insertion order, names distinct.
NameOrder == <<"9", "10", "id", "page">>

\* The parameters left in insertion order
sortedParamsUnsorted(params) == params

sortedParams(params) ==
    LET names == {params[i][1] : i \in DOMAIN params}
        valueOf(n) == (CHOOSE i \in DOMAIN params : params[i][1] = n)
        present == SelectSeq(NameOrder, LAMBDA n : n \in names)
    IN [i \in DOMAIN present |-> <<present[i], params[valueOf(present[i])][2]>>]

\* CacheManager.generateKey.  A key is a tuple: <<s>> is the string s, and
\* <<url, ps>> is `${url}:${JSON.stringify(ps)}`.
generateKey(url, params) ==
    IF params = None THEN <<url>> ELSE <<url, sortedParams(The(params))>>

\* ------------------------------------------------------------ handleError
\* The error a cancelled transport call rejects with (axios.Cancel): its
\* message is the reason CancelTokenSource.cancel was given.
CancelError(message) ==
    [isCancel |-> TRUE, isAxiosError |-> FALSE,
     message |-> Some(message), response |-> None]

\* The error field of a transport call that resolved: there is none
NoError ==
    [isCancel |-> FALSE, isAxiosError |-> FALSE, message |-> None, response |-> None]

\* An isCancel that recognizes no cancellation
isCancelNever(error) == FALSE

\* axios.isCancel
isCancel(error) == error.isCancel

\* A normalization that prefers the transport message to the body's detail
handleErrorMessageFirst(error) ==
    LET responseData == IF error.response = None THEN None
                        ELSE The(error.response).data
        detail == IF responseData = None THEN None ELSE The(responseData).detail
    IN [message |-> IF Truthy(error.message) THEN The(error.message)
                    ELSE IF Truthy(detail) THEN The(detail)
                    ELSE "An error occurred",
        status |-> IF error.response = None THEN None
                   ELSE Some(The(error.response).status),
        data |-> responseData]

\* A normalization that leaves the status out
handleErrorNoStatus(error) ==
    LET responseData == IF error.response = None THEN None
                        ELSE The(error.response).data
        detail == IF responseData = None THEN None ELSE The(responseData).detail
    IN [message |-> IF Truthy(detail) THEN The(detail)
                    ELSE IF Truthy(error.message) THEN The(error.message)
                    ELSE "An error occurred",
        status |-> None,
        data |-> responseData]

\* HttpClient.handleError
handleError(error) ==
    IF error.isAxiosError
    THEN LET responseData == IF error.response = None THEN None
                             ELSE The(error.response).data
             detail == IF responseData = None THEN None ELSE The(responseData).detail
         IN [message |-> IF Truthy(detail) THEN The(detail)
                         ELSE IF Truthy(error.message) THEN The(error.message)
                         ELSE "An error occurred",
             status |-> IF error.response = None THEN None
                        ELSE Some(The(error.response).status),
             data |-> responseData]
    ELSE [message |-> IF Truthy(error.message) THEN The(error.message)
                      ELSE "An unknown error occurred",
          status |-> None,
          data |-> None]

\* ------------------------------------------------------------ the calls
\* A call slot.  cancelled tells that the call's own cancel token was
\* cancelled and reason is the message it was cancelled with: both are set
\* once by CancelTokenSource.cancel.  response is what the awaited
\* transport promise settled with, result what the call's own promise
\* settled with.  onSuccess and onError list the arguments of each
\* invocation, onFinally counts the invocations, transport the transport
\* calls issued, invoked names the callbacks in the order they were invoked.  A call keeps its options (requestId, cache) only while
\* code that reads them is still to run: the catch block reads none, and a
\* settled call has none left.  post, put and delete read no cache option.
IdleCall ==
    [pc |-> "idle", requestId |-> <<>>, cache |-> None,
     cancelled |-> FALSE, reason |-> None, response |-> None, result |-> None,
     onSuccess |-> <<>>, onError |-> <<>>, onFinally |-> 0, transport |-> 0,
     invoked |-> <<>>]

Unsettled(c) == calls[c].pc \in {"pending", "responded"}

\* A new call takes the first free slot.
FreeSlot(c) == calls[c].pc = "idle" /\ \A d \in Calls : d < c => calls[d].pc # "idle"

\* The text of a request identifier: the caller's string, or
\* `${verb}:${url}:${Date.now()}`
idText(requestId) ==
    IF Len(requestId) = 1 THEN requestId[1]
    ELSE requestId[1] \o ":" \o requestId[2] \o ":" \o ToString(requestId[3])

\* `Request ${requestId} cancelled` of cancelRequest, and
\* `Request ${requestId} cancelled due to cleanup` of clearActiveRequests
cancelMessage(requestId, cleanup) ==
    "Request " \o idText(requestId) \o
        (IF cleanup THEN " cancelled due to cleanup" ELSE " cancelled")

\* CancelTokenSource.cancel on every token of `tokens`, found in the
\* registry under the identifier its call was registered with; cleanup
\* tells clearActiveRequests from cancelRequest.  The transport
\* listens to a token only while its call is pending: cancelling the token
\* of a call whose transport call has settled changes nothing.
cancelAll(cs, tokens, cleanup) ==
    [c \in Calls |-> IF c \in tokens /\ cs[c].pc = "pending" /\ ~cs[c].cancelled
                     THEN [cs[c] EXCEPT
                              !.cancelled = TRUE,
                              !.reason = Some(cancelMessage(cs[c].requestId, cleanup))]
                     ELSE cs[c]]

\* A cancelRequest that cancels no token
cancelRequestTokensNone(reg, requestId) == {}

\* HttpClient.cancelRequest: the tokens it cancels, and the registry it leaves
cancelRequestTokens(reg, requestId) == MapGet(reg, requestId)
cancelRequestMap(reg, requestId) ==
    IF MapHas(reg, requestId) THEN MapDelete(reg, requestId) ELSE reg

\* HttpClient.clearActiveRequests: the tokens it cancels, and the registry it leaves
clearActiveRequestsTokens(reg) == {p[2] : p \in reg}
clearActiveRequestsMap(reg) == {}

\* config?.requestId || `${verb}:${url}:${Date.now()}`
resolveRequestId(verb, url, rid, t) ==
    IF Truthy(rid) THEN <<The(rid)>> ELSE <<verb, url, t>>

\* A test of config.cache that takes bypass for its opposite
cacheEnabledOnBypass(co) == co # None /\ The(co).bypass

\* config.cache && !config.cache.bypass
cacheEnabled(co) == co # None /\ ~The(co).bypass
\* config.cache.key || cacheManager.generateKey(url, config.params)
cacheKeyOf(co, url) ==
    IF Truthy(Some(The(co).key)) THEN <<The(co).key>> ELSE generateKey(url, None)

\* The lines every verb starts with: cancel the call registered under the
\* identifier, create a token and register it.
Register(c, requestId, co) ==
    [cancelAll(calls, cancelRequestTokens(cancelTokens, requestId), FALSE) EXCEPT
        ![c] = [IdleCall EXCEPT !.pc = "pending", !.requestId = requestId,
                                !.cache = co, !.transport = 1]]

RegisterMap(c, requestId) ==
    MapSet(cancelRequestMap(cancelTokens, requestId), requestId, c)

\* A call without its options
dropOptions(call) == [call EXCEPT !.requestId = <<>>, !.cache = None]

\* How a call's promise settles
Returned(data) == Some([kind |-> "return", value |-> data])
Thrown(error) == Some([kind |-> "throw", error |-> error])

\* The finally block of a verb
finally(call) ==
    [call EXCEPT !.onFinally = @ + 1, !.invoked = Append(@, "onFinally")]

\* The caller's onSuccess either returns or throws an Error of its own.
CallbackError ==
    [isCancel |-> FALSE, isAxiosError |-> FALSE,
     message |-> Some("render failed"), response |-> None]
OnSuccessOutcomes == {None, Some(CallbackError)}

\* The call after its onSuccess was invoked with data
onSuccessInvoked(call, data) ==
    [call EXCEPT !.onSuccess = Append(@, data), !.invoked = Append(@, "onSuccess")]

\* HttpClient.get on a cache hit: onSuccess, onFinally, return.  These
\* lines stand before the try statement: what onSuccess throws (thrown)
\* leaves get as it is, onFinally is not called and the call rejects with
\* the caller's own error.
cacheHit(call, cachedData, thrown) ==
    IF thrown = None
    THEN [dropOptions(call) EXCEPT !.pc = "done",
                 !.onSuccess = Append(@, cachedData),
                 !.onFinally = @ + 1,
                 !.invoked = @ \o <<"onSuccess", "onFinally">>,
                 !.result = Returned(cachedData)]
    ELSE [onSuccessInvoked(dropOptions(call), cachedData) EXCEPT
             !.pc = "done", !.result = Thrown(The(thrown))]

\* A catch block that passes on what it caught
settleFailureRaw(call, error) ==
    finally([call EXCEPT !.pc = "done",
                         !.onError = IF isCancel(error) THEN @ ELSE Append(@, error),
                         !.invoked = IF isCancel(error) THEN @ ELSE Append(@, "onError"),
                         !.result = Thrown(error)])

\* The catch block of a verb: a cancellation is rethrown as it is, any other
\* error is normalized, passed to onError and thrown
settleFailure(call, error) ==
    IF isCancel(error)
    THEN finally([call EXCEPT !.pc = "done", !.result = Thrown(error)])
    ELSE LET apiError == handleError(error)
         IN finally([call EXCEPT !.pc = "done",
                                 !.onError = Append(@, apiError),
                                 !.invoked = Append(@, "onError"),
                                 !.result = Thrown(apiError)])

\* The try block of a verb after its await: onSuccess, return.  What
\* onSuccess throws (thrown) is caught by the verb's own catch block.
settleSuccess(call, data, thrown) ==
    IF thrown = None
    THEN finally([dropOptions(call) EXCEPT !.pc = "done",
                             !.onSuccess = Append(@, data),
                             !.invoked = Append(@, "onSuccess"),
                             !.result = Returned(data)])
    ELSE settleFailure(onSuccessInvoked(dropOptions(call), data), The(thrown))

\* HttpClient.get up to its await
Get(c) ==
    /\ FreeSlot(c)
    /\ \E rid \in RequestIdOpts, co \in CacheOpts, thrown \in OnSuccessOutcomes :
         LET requestId == resolveRequestId("get", Url, rid, now)
             registered == Register(c, requestId, co)
             key == cacheKeyOf(co, Url)
             cachedData == IF cacheEnabled(co) THEN cacheGet(cache, key, now) ELSE None
         IN IF cacheEnabled(co) /\ Truthy(cachedData)
            THEN \* cache hit: no transport call
                 /\ cancelTokens' = MapDelete(RegisterMap(c, requestId), requestId)
                 /\ calls' = [registered EXCEPT
                                 ![c] = cacheHit([@ EXCEPT !.transport = 0],
                                                 The(cachedData), thrown)]
                 /\ cache' = cacheAfterLookup(cache, key, now)
            ELSE /\ thrown = None    \* no callback is invoked before the await
                 /\ cancelTokens' = RegisterMap(c, requestId)
                 /\ calls' = registered
                 /\ cache' = IF cacheEnabled(co) THEN cacheAfterLookup(cache, key, now)
                             ELSE cache
    /\ UNCHANGED <<now, isRedirecting, storage, timers, epoch, probe, component>>

\* A post, put or delete that empties the cache
WriteInvalidating(c, verb) ==
    /\ FreeSlot(c)
    /\ \E rid \in RequestIdOpts :
         LET requestId == resolveRequestId(verb, Url, rid, now)
         IN /\ cancelTokens' = RegisterMap(c, requestId)
            /\ calls' = Register(c, requestId, None)
    /\ cache' = cacheClear(cache)
    /\ UNCHANGED <<now, isRedirecting, storage, timers, epoch, probe, component>>

\* HttpClient.post, put and delete up to their await
Write(c, verb) ==
    /\ FreeSlot(c)
    /\ \E rid \in RequestIdOpts :
         LET requestId == resolveRequestId(verb, Url, rid, now)
         IN /\ cancelTokens' = RegisterMap(c, requestId)
            /\ calls' = Register(c, requestId, None)
    /\ UNCHANGED <<now, isRedirecting, storage, cache, timers, epoch, probe, component>>

Post(c) == Write(c, "post")
Put(c) == Write(c, "put")
Delete(c) == Write(c, "delete")

\* --------------------------------------------- transport and interceptors
\* What the awaited transport promise may settle with.
Responses ==
    {[ok |-> TRUE, data |-> d, error |-> NoError] : d \in Data}
      \cup {[ok |-> FALSE, data |-> "", error |-> e] : e \in TransportErrors}
\* A transport that resolves although its token was cancelled
CancelledUnobserved(message) == [ok |-> TRUE, data |-> "d1", error |-> NoError]

\* What the transport promise of a cancelled call settles with
Cancelled(message) == [ok |-> FALSE, data |-> "", error |-> CancelError(message)]

\* error.response?.status === 401
unauthorized(error) == error.response # None /\ The(error.response).status = 401

\* The interceptor's condition without its test of the flag
runsTeardownUnguarded(error, redirecting) == unauthorized(error)

\* The condition of the response interceptor
runsTeardown(error, redirecting) == unauthorized(error) /\ ~redirecting

\* A destination that ignores the tenant identifier
redirectToRoot(tenantSlug) == <<"/">>

\* The destination the redirect timer is created with
redirectTo(tenantSlug) ==
    IF Truthy(tenantSlug) THEN <<"/", The(tenantSlug), "/login">> ELSE <<"/">>

\* A removal that removes nothing
removeItemNothing(store, key) == store

\* A removal that empties the store
removeItemEverything(store, key) == [k \in DOMAIN store |-> None]

\* localStorage.removeItem
removeItem(store, key) == [store EXCEPT ![key] = None]

\* One more 401 response since the last reset of the flag, counted to SeenCap
seen(n) == IF n < SeenCap THEN n + 1 ELSE n

\* The transport call of c settles and the response interceptor runs.  A
\* call whose token was cancelled while the transport call was pending
\* rejects with the cancellation.
Answer(c, responses) ==
    /\ calls[c].pc = "pending"
    /\ \E r \in (IF calls[c].cancelled THEN {Cancelled(The(calls[c].reason))}
                 ELSE responses) :
         LET answered ==
                 [calls EXCEPT ![c] = [(IF r.ok THEN @ ELSE dropOptions(@)) EXCEPT
                                          !.pc = "responded", !.cancelled = FALSE,
                                          !.reason = None,
                                          !.response = Some(r)]]
         IN IF ~r.ok /\ runsTeardown(r.error, isRedirecting)
            THEN /\ Len(timers) < MaxTimers
                 /\ isRedirecting' = TRUE
                 /\ storage' = removeItem(storage, "nepali_user")
                 /\ calls' = cancelAll(answered, clearActiveRequestsTokens(cancelTokens), TRUE)
                 /\ cancelTokens' = clearActiveRequestsMap(cancelTokens)
                 /\ timers' = Append(timers, redirectTo(storage.nepali_app_client))
                 /\ epoch' = [unauthorized |-> seen(epoch.unauthorized),
                              removeItem |-> epoch.removeItem + 1,
                              toast |-> epoch.toast + 1,
                              clearActiveRequests |-> epoch.clearActiveRequests + 1,
                              setTimeout |-> epoch.setTimeout + 1]
            ELSE /\ calls' = answered
                 /\ epoch' = IF ~r.ok /\ unauthorized(r.error)
                             THEN [epoch EXCEPT !.unauthorized = seen(@)] ELSE epoch
                 /\ UNCHANGED <<isRedirecting, storage, cancelTokens, timers>>
    /\ UNCHANGED <<now, cache, probe, component>>

Respond(c) == Answer(c, Responses)

\* The same with a transport that may also answer with an empty body
EmptyResponses == {[ok |-> TRUE, data |-> "", error |-> NoError]}
RespondAny(c) == Answer(c, Responses \cup EmptyResponses)

\* The continuation of a verb after its await
Resume(c) ==
    /\ calls[c].pc = "responded"
    /\ LET call == calls[c]
           r == The(call.response)
       IN IF r.ok
          THEN /\ cache' = IF cacheEnabled(call.cache)
                           THEN cacheSet(cache, cacheKeyOf(call.cache, Url), r.data,
                                         The(call.cache).ttl, now)
                           ELSE cache
               /\ cancelTokens' = MapDelete(cancelTokens, call.requestId)
               /\ \E thrown \in OnSuccessOutcomes :
                    calls' = [calls EXCEPT ![c] = settleSuccess(call, r.data, thrown)]
          ELSE /\ calls' = [calls EXCEPT ![c] = settleFailure(call, r.error)]
               /\ UNCHANGED <<cache, cancelTokens>>
    /\ UNCHANGED <<now, isRedirecting, storage, timers, epoch, probe, component>>

\* The caller drops a settled call; its slot serves a later call.  A token
\* still registered keeps its slot.
Forget(c) ==
    /\ calls[c].pc = "done"
    /\ c \notin clearActiveRequestsTokens(cancelTokens)
    /\ calls' = [calls EXCEPT ![c] = IdleCall]
    /\ UNCHANGED <<now, cancelTokens, isRedirecting, storage, cache, timers,
                   epoch, probe, component>>

\* ------------------------------------------------- the other operations
\* HttpClient.cancelRequest, called by a caller
CancelRequest ==
    /\ \E requestId \in {p[1] : p \in cancelTokens} \cup {<<"list:123">>} :
         /\ calls' = cancelAll(calls, cancelRequestTokens(cancelTokens, requestId), FALSE)
         /\ cancelTokens' = cancelRequestMap(cancelTokens, requestId)
    /\ UNCHANGED <<now, isRedirecting, storage, cache, timers, epoch, probe, component>>

\* A clearActiveRequests that also resets the flag
ClearActiveRequestsResetting ==
    /\ calls' = cancelAll(calls, clearActiveRequestsTokens(cancelTokens), TRUE)
    /\ cancelTokens' = clearActiveRequestsMap(cancelTokens)
    /\ isRedirecting' = FALSE
    /\ UNCHANGED <<now, storage, cache, timers, epoch, probe, component>>

\* HttpClient.clearActiveRequests, called by a caller
ClearActiveRequests ==
    /\ calls' = cancelAll(calls, clearActiveRequestsTokens(cancelTokens), TRUE)
    /\ cancelTokens' = clearActiveRequestsMap(cancelTokens)
    /\ UNCHANGED <<now, isRedirecting, storage, cache, timers, epoch, probe, component>>

\* HttpClient.clearCache
ClearCache ==
    /\ \E key \in {None, Some(""), Some("K")} :
         cache' = IF Truthy(key) THEN cacheDelete(cache, <<The(key)>>) ELSE cacheClear(cache)
    /\ UNCHANGED <<now, cancelTokens, isRedirecting, storage, calls, timers,
                   epoch, probe, component>>

NoEpoch ==
    [unauthorized |-> 0, removeItem |-> 0, toast |-> 0,
     clearActiveRequests |-> 0, setTimeout |-> 0]

\* HttpClient.resetRedirectFlag
ResetRedirectFlag ==
    /\ isRedirecting' = FALSE
    /\ epoch' = NoEpoch
    /\ UNCHANGED <<now, cancelTokens, storage, cache, calls, timers, probe, component>>

\* AuthProvider.login
Login ==
    /\ storage' = [nepali_user |-> Some(UserData),
                   nepali_app_client |-> IF Truthy(Some(UserData.tenantSlug))
                                         THEN Some(UserData.tenantSlug)
                                         ELSE storage.nepali_app_client]
    /\ isRedirecting' = FALSE
    /\ epoch' = NoEpoch
    /\ UNCHANGED <<now, cancelTokens, cache, calls, timers, probe, component>>

\* AuthProvider.logout
Logout ==
    /\ storage' = removeItem(storage, "nepali_user")
    /\ UNCHANGED <<now, cancelTokens, isRedirecting, cache, calls, timers,
                   epoch, probe, component>>

\* The callback of the interceptor's setTimeout
RedirectTimer ==
    /\ timers # <<>>
    /\ timers' = Tail(timers)
    /\ UNCHANGED <<now, cancelTokens, isRedirecting, storage, cache, calls, epoch, probe, component>>

\* Date.now() advances
Tick ==
    /\ now < MaxTime
    /\ now' = now + 1
    /\ UNCHANGED <<cancelTokens, isRedirecting, storage, cache, calls, timers,
                   epoch, probe, component>>

\* ------------------------------------------------------- specification
\* No component is mounted.
NoComponent ==
    [mounted |-> FALSE, requestIds |-> "omitted", requestIdsRef |-> <<>>,
     random |-> 0, returned |-> {}, cancelled |-> {}, individually |-> {},
     op |-> ""]

NoCache == [k \in {} |-> [data |-> "", timestamp |-> 0, expiresAt |-> 0]]

Init ==
    /\ now = 0
    /\ cancelTokens = {}
    /\ isRedirecting = FALSE
    /\ storage = [nepali_user |-> Some(UserData), nepali_app_client |-> Some("acme")]
    /\ cache = NoCache
    /\ calls = [c \in Calls |-> IdleCall]
    /\ timers = <<>>
    /\ epoch = NoEpoch
    /\ probe = None
    /\ component = NoComponent

Next ==
    \/ \E c \in Calls : Get(c)
    \/ \E c \in Calls : Post(c)
    \/ \E c \in Calls : Put(c)
    \/ \E c \in Calls : Delete(c)
    \/ \E c \in Calls : Respond(c)
    \/ \E c \in Calls : Resume(c)
    \/ \E c \in Calls : Forget(c)
    \/ CancelRequest
    \/ ClearActiveRequests
    \/ ClearCache
    \/ ResetRedirectFlag
    \/ Login
    \/ Logout
    \/ RedirectTimer

Spec == Init /\ [][Next]_vars

\* ------------------------------------------- the units, called directly
\* CacheManager's methods and handleError called on their own; probe keeps
\* the call and what it returned.
CacheKeys == {<<"K">>, <<Url>>}
Ttls == {None, Some(0), Some(1)}
EntryOf(ch, key) == IF key \in DOMAIN ch THEN Some(ch[key]) ELSE None

Statuses == {400, 401, 404, 500}
Bodies == {None} \cup {Some([detail |-> d]) : d \in {None, Some(""), Some("token expired")}}
Messages == {None, Some(""), Some("Network Error")}
\* axios attaches a response only to an AxiosError.
ErrorInputs ==
    {[isCancel |-> FALSE, isAxiosError |-> TRUE, message |-> m, response |-> r] :
        m \in Messages,
        r \in {None} \cup {Some([status |-> st, data |-> b]) : st \in Statuses, b \in Bodies}}
      \cup {[isCancel |-> FALSE, isAxiosError |-> FALSE, message |-> m, response |-> None] :
              m \in Messages}

UnitFrame ==
    UNCHANGED <<cancelTokens, isRedirecting, storage, calls, timers, epoch, component>>

CacheSetOp ==
    /\ \E key \in CacheKeys, data \in Data, ttl \in Ttls :
         /\ cache' = cacheSet(cache, key, data, ttl, now)
         /\ probe' = Some([op |-> "set", key |-> key, at |-> now])
    /\ now' = now
    /\ UnitFrame

CacheGetOp ==
    /\ \E key \in CacheKeys :
         /\ cache' = cacheAfterLookup(cache, key, now)
         /\ probe' = Some([op |-> "get", key |-> key, at |-> now,
                           entry |-> EntryOf(cache, key),
                           ret |-> cacheGet(cache, key, now)])
    /\ now' = now
    /\ UnitFrame

CacheHasOp ==
    /\ \E key \in CacheKeys :
         /\ cache' = cacheAfterLookup(cache, key, now)
         /\ probe' = Some([op |-> "has", key |-> key, at |-> now,
                           entry |-> EntryOf(cache, key),
                           ret |-> cacheHas(cache, key, now)])
    /\ now' = now
    /\ UnitFrame

CacheDeleteOp ==
    /\ \E key \in CacheKeys :
         /\ cache' = cacheDelete(cache, key)
         /\ probe' = Some([op |-> "delete", key |-> key, at |-> now])
    /\ now' = now
    /\ UnitFrame

CacheClearOp ==
    /\ cache' = cacheClear(cache)
    /\ probe' = Some([op |-> "clear", at |-> now])
    /\ now' = now
    /\ UnitFrame

ClearExpiredOp ==
    /\ cache' = clearExpired(cache, now)
    /\ probe' = Some([op |-> "clearExpired", at |-> now, before |-> cache])
    /\ now' = now
    /\ UnitFrame

\* params of generateKey: absent, or an object of at most MaxParams names
ParamNames == {NameOrder[i] : i \in DOMAIN NameOrder}
ParamValues == {1, 2}
ParamObjects ==
    {ps \in UNION {[1..n -> ParamNames \X ParamValues] : n \in 0..MaxParams} :
        \A i, j \in DOMAIN ps : i # j => ps[i][1] # ps[j][1]}
ParamInputs == {None} \cup {Some(ps) : ps \in ParamObjects}

GenerateKeyOp ==
    /\ \E params \in ParamInputs :
         probe' = Some([op |-> "generateKey", url |-> Url, params |-> params,
                        ret |-> generateKey(Url, params)])
    /\ UNCHANGED <<now, cache>>
    /\ UnitFrame

HandleErrorOp ==
    /\ \E error \in ErrorInputs :
         probe' = Some([op |-> "handleError", error |-> error, ret |-> handleError(error)])
    /\ UNCHANGED <<now, cache>>
    /\ UnitFrame

NextUnit ==
    \/ CacheSetOp
    \/ CacheGetOp
    \/ CacheHasOp
    \/ CacheDeleteOp
    \/ CacheClearOp
    \/ ClearExpiredOp
    \/ HandleErrorOp
    \/ GenerateKeyOp
    \/ Tick

SpecUnit == Init /\ [][NextUnit]_vars

\* -------------------------------------------- the request interceptor
\* What localStorage may hold under nepali_user when the page loads: the
\* text of a user object (a record of its string fields), or a text that
\* is no such object ("" is the empty string, "null" the JSON null, any
\* other text does not parse).
StoredTexts ==
    { UserData,
      [token |-> "", tokenType |-> "Bearer", tenantSlug |-> "acme"],
      [token |-> "tok", tokenType |-> "", tenantSlug |-> "acme"],
      [token |-> "tok", tenantSlug |-> "acme"],
      [tokenType |-> "Bearer", tenantSlug |-> "acme"],
      [tenantSlug |-> "acme"],
      [text |-> ""], [text |-> "null"], [text |-> "{token:"] }
StoredValues == {None} \cup {Some(t) : t \in StoredTexts}

\* JSON.parse: the object, null, or an exception
JSONparse(t) ==
    IF "text" \notin DOMAIN t THEN [kind |-> "return", value |-> Some(t)]
    ELSE IF t.text = "null" THEN [kind |-> "return", value |-> None]
    ELSE [kind |-> "throw", value |-> None]

\* user.field, undefined when the object has no such field
field(user, name) == IF name \in DOMAIN user THEN Some(user[name]) ELSE None

\* An interceptor that asks for the token only
requestInterceptorTokenOnly(userData) ==
    IF userData = None \/ userData = Some([text |-> ""])
    THEN [kind |-> "return", Authorization |-> None]
    ELSE LET parsed == JSONparse(The(userData))
         IN IF parsed.kind = "throw" \/ parsed.value = None
            THEN [kind |-> "return", Authorization |-> None]
            ELSE LET user == The(parsed.value)
                 IN IF Truthy(field(user, "token"))
                    THEN [kind |-> "return",
                          Authorization |-> Some(<<field(user, "tokenType"), " ",
                                                   field(user, "token")>>)]
                    ELSE [kind |-> "return", Authorization |-> None]

\* The request interceptor, given localStorage.getItem('nepali_user'): what
\* it returns or throws, and the Authorization header of the config it
\* returns.  The header `${user.tokenType} ${user.token}` is the tuple of
\* its three parts.
requestInterceptor(userData) ==
    IF userData = None \/ userData = Some([text |-> ""])
    THEN [kind |-> "return", Authorization |-> None]
    ELSE LET parsed == JSONparse(The(userData))
         IN IF parsed.kind = "throw" \/ parsed.value = None
            THEN \* the catch block: JSON.parse threw, or user is null
                 [kind |-> "return", Authorization |-> None]
            ELSE LET user == The(parsed.value)
                 IN IF Truthy(field(user, "token")) /\ Truthy(field(user, "tokenType"))
                    THEN [kind |-> "return",
                          Authorization |-> Some(<<field(user, "tokenType"), " ",
                                                   field(user, "token")>>)]
                    ELSE [kind |-> "return", Authorization |-> None]

\* The calls whose transport call is made and whose request interceptor has
\* yet to run, each with the value localStorage held under nepali_user when
\* the call was issued
NoQueue == [c \in Calls |-> None]
Queue == IF probe = None THEN NoQueue ELSE The(probe).queue

\* An outgoing call passes the request interceptor, a microtask after get
\* or post returned to its caller: the interceptor reads localStorage now
RequestInterceptorOp(c) ==
    /\ Queue[c] # None
    /\ probe' = Some([op |-> "request", at |-> now, userData |-> storage.nepali_user,
                      ret |-> requestInterceptor(storage.nepali_user),
                      issued |-> The(Queue[c]),
                      queue |-> [Queue EXCEPT ![c] = None]])
    /\ UNCHANGED <<now, cancelTokens, isRedirecting, storage, cache, calls,
                   timers, epoch, component>>

\* The config a caller gives to get or post without cache options and
\* without a requestId: omitted, or an object with some of params and
\* headers.  An object is a function from its field names to their values.
ConfigFields == {"params", "headers"}
ConfigObjects == UNION {[fs -> {"v"}] : fs \in SUBSET ConfigFields}
ConfigInputs == {None} \cup {Some(cfg) : cfg \in ConfigObjects}
BodyInputs == {None, Some("body")}

\* { ...config, cancelToken: cancelTokenSource.token }
requestConfig(config, token) ==
    LET given == IF config = None THEN <<>> ELSE The(config)
    IN [f \in DOMAIN given \cup {"cancelToken"} |->
           IF f = "cancelToken" THEN token ELSE given[f]]

\* The arguments of this.client.get and this.client.post, one tuple for
\* each invocation
transportCalls(verb, url, data, config) ==
    IF verb = "get"
    THEN << [url |-> url, data |-> None, config |-> Some(requestConfig(config, "token"))] >>
    ELSE << [url |-> url, data |-> data, config |-> Some(requestConfig(config, "token"))] >>

\* get or post up to its await, on a config without cache options and
\* without a requestId: the call registered under the generated identifier
\* cancelled, a new token registered, the transport call made; its request
\* interceptor has not run yet
TransportCallOp(c) ==
    /\ FreeSlot(c)
    /\ \E verb \in {"get", "post"}, config \in ConfigInputs, data \in BodyInputs :
         LET requestId == resolveRequestId(verb, Url, None, now)
         IN /\ verb = "get" => data = None
            /\ cancelTokens' = RegisterMap(c, requestId)
            /\ calls' = Register(c, requestId, None)
            /\ probe' = Some([op |-> "transport", verb |-> verb, url |-> Url,
                              data |-> data, config |-> config,
                              calls |-> transportCalls(verb, Url, data, config),
                              queue |-> [Queue EXCEPT ![c] = Some(storage.nepali_user)]])
    /\ UNCHANGED <<now, isRedirecting, storage, cache, timers, epoch, component>>

\* AuthProvider.updateTenantSlug
TenantSlugs == {"acme", "globex"}
UpdateTenantSlug ==
    /\ \E slug \in TenantSlugs :
         storage' = [storage EXCEPT !.nepali_app_client = Some(slug)]
    /\ UNCHANGED <<now, cancelTokens, isRedirecting, cache, calls, timers,
                   epoch, probe, component>>

InitAuth ==
    /\ now = 0
    /\ cancelTokens = {}
    /\ isRedirecting = FALSE
    /\ storage \in [nepali_user : StoredValues, nepali_app_client : {None, Some("acme")}]
    /\ cache = NoCache
    /\ calls = [c \in Calls |-> IdleCall]
    /\ timers = <<>>
    /\ epoch = NoEpoch
    /\ probe = None
    /\ component = NoComponent

NextAuth ==
    \/ \E c \in Calls : RequestInterceptorOp(c)
    \/ \E c \in Calls : TransportCallOp(c)
    \/ Login
    \/ Logout
    \/ UpdateTenantSlug
    \/ Tick

SpecAuth == InitAuth /\ [][NextAuth]_vars

\* ------------------------------------------------ the session teardown
\* The calls, the response interceptor and the redirect timer, started
\* with or without a stored session and tenant identifier.
InitSession ==
    /\ now = 0
    /\ cancelTokens = {}
    /\ isRedirecting = FALSE
    /\ storage \in [nepali_user : {None, Some(UserData)},
                    nepali_app_client : {None} \cup {Some(slug) : slug \in TenantSlugs}]
    /\ cache = NoCache
    /\ calls = [c \in Calls |-> IdleCall]
    /\ timers = <<>>
    /\ epoch = NoEpoch
    /\ probe = None
    /\ component = NoComponent

NextSession ==
    \/ \E c \in Calls : Post(c)
    \/ \E c \in Calls : Respond(c)
    \/ \E c \in Calls : Resume(c)
    \/ \E c \in Calls : Forget(c)
    \/ RedirectTimer
    \/ ResetRedirectFlag
    \/ Login
    \/ Logout
    \/ UpdateTenantSlug

SpecSession == InitSession /\ [][NextSession]_vars

\* ---------------------------------------------- useRequestCancellation
\* A component that calls useRequestCancellation on every render.  The
\* requestIds argument is omitted, so that the default `[]` is a new array
\* on every render, or it is one array the caller keeps ("stable"), empty
\* at the first render.  requestIdsRef is requestIdsRef.current; returned
\* holds the identifiers generateRequestId has returned, cancelled those
\* httpClient.cancelRequest was called with, individually those the hook's
\* cancelRequest was called with; op is the hook function that ran last.
\* An identifier is <<prefix, Date.now(), random>>; the random parts drawn
\* are 1, 2, ...
MaxIds == 2          \* identifiers a component generates

RequestIdsArguments == {"omitted", "stable"}

\* httpClient.cancelRequest for each identifier of ids, in order
RECURSIVE cancelEach(_, _)
cancelEach(reg, ids) ==
    IF ids = <<>> THEN reg
    ELSE cancelEach(cancelRequestMap(reg, Head(ids)), Tail(ids))

cancelEachTokens(reg, ids) ==
    UNION {cancelRequestTokens(reg, ids[i]) : i \in DOMAIN ids}

Elements(ids) == {ids[i] : i \in DOMAIN ids}

HookFrame == UNCHANGED <<now, isRedirecting, storage, cache, timers, epoch, probe>>

\* A re-render of the component: the effect on [requestIds] runs when the
\* argument is not the array of the previous render
ComponentRender ==
    /\ component.mounted
    /\ component' = [component EXCEPT
                       !.requestIdsRef = IF component.requestIds = "omitted"
                                         THEN <<>> ELSE @,
                       !.op = "render"]
    /\ UNCHANGED <<cancelTokens, calls>>
    /\ HookFrame

\* generateRequestId; the function works on the ref whether or not the
\* component is still mounted
GenerateRequestId ==
    /\ component.random < MaxIds
    /\ LET id == <<"request", now, component.random + 1>>
       IN component' = [component EXCEPT
                          !.requestIdsRef = Append(@, id),
                          !.random = @ + 1,
                          !.returned = @ \cup {id},
                          !.op = "generateRequestId"]
    /\ UNCHANGED <<cancelTokens, calls>>
    /\ HookFrame

\* The hook's cancelRequest
HookCancelRequest ==
    /\ \E requestId \in component.returned :
         /\ calls' = cancelAll(calls, cancelRequestTokens(cancelTokens, requestId), FALSE)
         /\ cancelTokens' = cancelRequestMap(cancelTokens, requestId)
         /\ component' = [component EXCEPT
                            !.requestIdsRef = SelectSeq(@, LAMBDA id : id # requestId),
                            !.cancelled = @ \cup {requestId},
                            !.individually = @ \cup {requestId},
                            !.op = "cancelRequest"]
    /\ HookFrame

\* cancelAllRequests
CancelAllRequests ==
    /\ calls' = cancelAll(calls, cancelEachTokens(cancelTokens, component.requestIdsRef), FALSE)
    /\ cancelTokens' = cancelEach(cancelTokens, component.requestIdsRef)
    /\ component' = [component EXCEPT
                       !.requestIdsRef = <<>>,
                       !.cancelled = @ \cup Elements(component.requestIdsRef),
                       !.op = "cancelAllRequests"]
    /\ HookFrame

\* The cleanup of the hook's mount effect
ComponentUnmount ==
    /\ component.mounted
    /\ calls' = cancelAll(calls, cancelEachTokens(cancelTokens, component.requestIdsRef), FALSE)
    /\ cancelTokens' = cancelEach(cancelTokens, component.requestIdsRef)
    /\ component' = [component EXCEPT
                       !.mounted = FALSE,
                       !.cancelled = @ \cup Elements(component.requestIdsRef),
                       !.op = "unmount"]
    /\ HookFrame

InitHook ==
    /\ now = 0
    /\ cancelTokens = {}
    /\ isRedirecting = FALSE
    /\ storage = [nepali_user |-> Some(UserData), nepali_app_client |-> Some("acme")]
    /\ cache = NoCache
    /\ calls = [c \in Calls |-> IdleCall]
    /\ timers = <<>>
    /\ epoch = NoEpoch
    /\ probe = None
    /\ \E requestIds \in RequestIdsArguments :
         component = [NoComponent EXCEPT !.mounted = TRUE, !.requestIds = requestIds]

NextHook ==
    \/ ComponentRender
    \/ GenerateRequestId
    \/ HookCancelRequest
    \/ CancelAllRequests
    \/ ComponentUnmount
    \/ Tick

SpecHook == InitHook /\ [][NextHook]_vars

\* ------------------------------------------------------------ TaskService
\* A dispatcher call as a service makes it: the verb and the arguments of
\* httpClient.get/post/put.  A URL built from parts is the tuple of its
\* parts; a request body is a record of its fields, an optional field
\* being an optional value.
baseGet(url, config, callbacks) ==
    [verb |-> "get", args |-> <<url, config, callbacks>>]
basePost(url, data, config, callbacks) ==
    [verb |-> "post", args |-> <<url, data, config, callbacks>>]
basePut(url, data, config, callbacks) ==
    [verb |-> "put", args |-> <<url, data, config, callbacks>>]

\* options?.include_tasks || false
includeTasks(options) ==
    IF options = None THEN FALSE ELSE The(options).include_tasks = Some(TRUE)

\* A fetchTaskSet whose include_task_ids follows include_tasks
fetchTaskSetWithoutIds(taskSetId, options, callbacks) ==
    basePost("/tasks/task-set",
             [set_id |-> taskSetId,
              include_tasks |-> includeTasks(options),
              include_task_ids |-> includeTasks(options)],
             None, callbacks)

fetchTaskSet(taskSetId, options, callbacks) ==
    basePost("/tasks/task-set",
             [set_id |-> taskSetId,
              include_tasks |-> includeTasks(options),
              include_task_ids |-> TRUE],
             None, callbacks)

fetchTask(taskId, options, callbacks) ==
    basePost("/tasks/task",
             [task_id |-> taskId,
              fields |-> IF options = None THEN None ELSE The(options).fields],
             None, callbacks)

submitTaskAnswers(taskSetId, answers, callbacks) ==
    basePut("/tasks/task-set/submit",
            [set_id |-> taskSetId, answers |-> answers],
            None, callbacks)

submitTaskAnswer(taskId, answer, taskType, callbacks) ==
    basePost("/tasks/task/submit",
             [task_id |-> taskId, answer |-> answer, task_type |-> taskType],
             None, callbacks)

\* new URLSearchParams({limit, skip}) with each field appended, as a
\* sequence of name/value pairs; limit defaults to 10 and skip to 0
searchParams(limit, skip, fields) ==
    << <<"limit", IF limit = None THEN 10 ELSE The(limit)>>,
       <<"skip", IF skip = None THEN 0 ELSE The(skip)>> >>
      \o (IF fields = None THEN <<>>
          ELSE [i \in DOMAIN The(fields) |-> <<"fields", The(fields)[i]>>])

fetchUserTaskSets(limit, skip, fields, callbacks) ==
    baseGet(<<"/tasks/user/task-sets?", searchParams(limit, skip, fields)>>,
            None, callbacks)

fetchTestScores(taskSetId, callbacks) ==
    baseGet(<<"/tasks/test_score?task_set_id=", taskSetId>>, None, callbacks)

\* Inputs of the service operations
Ids == {"123"}
TaskSetOptions ==
    {None} \cup {Some([include_tasks |-> it]) : it \in {None, Some(TRUE), Some(FALSE)}}
FieldLists == {None, Some(<<>>), Some(<<"id", "type">>)}
TaskOptions == {None} \cup {Some([fields |-> fs]) : fs \in FieldLists}
Answers == {<<>>, <<[task_id |-> "123", user_answer |-> "test"]>>}
TaskTypes == {None, Some("single_choice")}
\* limit and skip: both omitted, or both given
Pages == {<<None, None>>, <<Some(5), Some(20)>>}
CallbackInputs == {None, Some("callbacks")}
\* URLSearchParams.toString() of searchParams
RECURSIVE fieldsText(_, _)
fieldsText(params, i) ==
    IF i > Len(params) THEN ""
    ELSE "&fields=" \o params[i][2] \o fieldsText(params, i + 1)
paramsText(params) ==
    "limit=" \o ToString(params[1][2]) \o "&skip=" \o ToString(params[2][2])
        \o fieldsText(params, 3)

\* probe keeps, for every call slot, the service operation that issued the
\* call in it: its name, the arguments it was given, the dispatcher calls
\* it made and how its promise settled.
NoServiceCalls == [op |-> "service", by |-> [c \in Calls |-> None]]

\* A call settled by a dispatcher that was given no callbacks
withoutCallbacks(call) ==
    [call EXCEPT !.onSuccess = <<>>, !.onError = <<>>, !.onFinally = 0,
                 !.invoked = <<>>]

\* An async method whose body is `return this.post(...)`, up to the await
\* of the dispatcher: one dispatcher call, which cancels the call
\* registered under the identifier it generates, registers a token and
\* makes the transport call.  url is the URL of the call as the string the
\* service passes.
ServiceCall(c, name, args, call, url) ==
    /\ FreeSlot(c)
    /\ LET requestId == resolveRequestId(call.verb, url, None, now)
       IN /\ cancelTokens' = RegisterMap(c, requestId)
          /\ calls' = Register(c, requestId, None)
          /\ probe' = Some([The(probe) EXCEPT
                              !.by[c] = Some([name |-> name, given |-> args,
                                              dispatched |-> <<call>>,
                                              ret |-> None])])
    /\ UNCHANGED <<now, isRedirecting, storage, cache, timers, epoch, component>>

FetchTaskSetOp(c) ==
    \E id \in Ids, options \in TaskSetOptions, cb \in CallbackInputs :
        ServiceCall(c, "fetchTaskSet", <<id, options, cb>>,
                    fetchTaskSet(id, options, cb),
                    "/tasks/task-set")

FetchTaskOp(c) ==
    \E id \in Ids, options \in TaskOptions, cb \in CallbackInputs :
        ServiceCall(c, "fetchTask", <<id, options, cb>>, fetchTask(id, options, cb),
                    "/tasks/task")

SubmitTaskAnswersOp(c) ==
    \E id \in Ids, answers \in Answers, cb \in CallbackInputs :
        ServiceCall(c, "submitTaskAnswers", <<id, answers, cb>>,
                    submitTaskAnswers(id, answers, cb), "/tasks/task-set/submit")

SubmitTaskAnswerOp(c) ==
    \E id \in Ids, taskType \in TaskTypes, cb \in CallbackInputs :
        ServiceCall(c, "submitTaskAnswer", <<id, "test", taskType, cb>>,
                    submitTaskAnswer(id, "test", taskType, cb), "/tasks/task/submit")

FetchUserTaskSetsOp(c) ==
    \E page \in Pages, fields \in FieldLists, cb \in CallbackInputs :
        ServiceCall(c, "fetchUserTaskSets", <<page[1], page[2], fields, cb>>,
                    fetchUserTaskSets(page[1], page[2], fields, cb),
                    "/tasks/user/task-sets?"
                        \o paramsText(searchParams(page[1], page[2], fields)))

FetchTestScoresOp(c) ==
    \E id \in Ids, cb \in CallbackInputs :
        ServiceCall(c, "fetchTestScores", <<id, cb>>, fetchTestScores(id, cb),
                    "/tasks/test_score?task_set_id=" \o id)

\* The transport answers a service call with a body or with a failure that
\* is no 401
ServiceResponses ==
    {r \in Responses : IF r.ok THEN r.data = "d1" ELSE ~unauthorized(r.error)}
ServiceRespond(c) == Answer(c, ServiceResponses)

\* The continuation of the dispatcher call after its await, with the
\* callbacks the service forwarded, whose onSuccess returns or throws, or
\* with none.  The dispatcher's promise settles; the promise of the
\* service method, which adopts it through two async functions, is still
\* pending.
ServiceResume(c) ==
    /\ calls[c].pc = "responded"
    /\ \E thrown \in OnSuccessOutcomes :
         LET call == calls[c]
             r == The(call.response)
             p == The(The(probe).by[c])
             forwarded == p.given[Len(p.given)] # None
             settled == IF r.ok THEN settleSuccess(call, r.data, thrown)
                        ELSE settleFailure(call, r.error)
             final == IF forwarded THEN settled ELSE withoutCallbacks(settled)
         IN /\ thrown # None => (r.ok /\ forwarded)
            /\ cancelTokens' = IF r.ok THEN MapDelete(cancelTokens, call.requestId)
                               ELSE cancelTokens
            /\ calls' = [calls EXCEPT ![c] = final]
    /\ UNCHANGED <<now, isRedirecting, storage, cache, timers, epoch, probe,
                   component>>

\* `return this.post(...)` of the async method and of BaseService: the
\* method's promise settles as the dispatcher's did, microtasks after the
\* dispatcher's continuation ended; continuations of other calls may run
\* in between
ServiceReturn(c) ==
    /\ calls[c].pc = "done"
    /\ The(probe).by[c] # None
    /\ The(The(probe).by[c]).ret = None
    /\ probe' = Some([The(probe) EXCEPT
                        !.by[c] = Some([The(@) EXCEPT !.ret = calls[c].result])])
    /\ UNCHANGED <<now, cancelTokens, isRedirecting, storage, cache, calls, timers,
                   epoch, component>>

\* The caller drops a service call whose promise has settled
ServiceForget(c) ==
    /\ calls[c].pc = "done"
    /\ The(The(probe).by[c]).ret # None
    /\ c \notin clearActiveRequestsTokens(cancelTokens)
    /\ calls' = [calls EXCEPT ![c] = IdleCall]
    /\ probe' = Some([The(probe) EXCEPT !.by[c] = None])
    /\ UNCHANGED <<now, cancelTokens, isRedirecting, storage, cache, timers,
                   epoch, component>>

InitService ==
    /\ now = 0
    /\ cancelTokens = {}
    /\ isRedirecting = FALSE
    /\ storage = [nepali_user |-> Some(UserData), nepali_app_client |-> Some("acme")]
    /\ cache = NoCache
    /\ calls = [c \in Calls |-> IdleCall]
    /\ timers = <<>>
    /\ epoch = NoEpoch
    /\ probe = Some(NoServiceCalls)
    /\ component = NoComponent

NextService ==
    \/ \E c \in Calls : FetchTaskSetOp(c)
    \/ \E c \in Calls : FetchTaskOp(c)
    \/ \E c \in Calls : SubmitTaskAnswersOp(c)
    \/ \E c \in Calls : SubmitTaskAnswerOp(c)
    \/ \E c \in Calls : FetchUserTaskSetsOp(c)
    \/ \E c \in Calls : FetchTestScoresOp(c)
    \/ \E c \in Calls : ServiceRespond(c)
    \/ \E c \in Calls : ServiceResume(c)
    \/ \E c \in Calls : ServiceReturn(c)
    \/ \E c \in Calls : ServiceForget(c)

SpecService == InitService /\ [][NextService]_vars

\* ------------------------------------------------------- cacheable reads
\* get calls, answered with any body, while the clock advances
NextRead ==
    \/ \E c \in Calls : Get(c)
    \/ \E c \in Calls : RespondAny(c)
    \/ \E c \in Calls : Resume(c)
    \/ \E c \in Calls : Forget(c)
    \/ ClearCache
    \/ Tick

SpecRead == Init /\ [][NextRead]_vars

\* ------------------------------------------ calls and stored credentials
\* The dispatcher with a record of the credentials each call was sent
\* with.  get runs synchronously up to its await of this.client.get; the
\* request interceptor runs one microtask later and reads localStorage
\* then, so the caller's code that follows get synchronously (a login, a
\* logout) runs before it.  probe keeps the call slots whose request
\* interceptor has yet to run (queued), for every call slot the
\* Authorization header the stored record gave when the call was issued
\* (under) and the one the request interceptor gave its transport call
\* (sent), the slots whose call was issued between a teardown and the next
\* login (torn), and for every cache key the two headers of the call whose
\* response was cached under it (origin).
NoCredentials ==
    [op |-> "credentials",
     queued |-> {},
     under |-> [c \in Calls |-> None],
     sent |-> [c \in Calls |-> None],
     torn |-> {},
     origin |-> [key \in CacheKeys |-> None]]

\* The Authorization header the request interceptor gives a call now
AuthorizationNow == requestInterceptor(storage.nepali_user).Authorization

\* The reads issued: without options, or cached under the key "K" with the
\* default lifetime
SentCacheOpts == {None, Some([key |-> "K", ttl |-> None, bypass |-> FALSE])}

\* What the transport answers them with: a body, or 401
SentResponses ==
    {r \in Responses : IF r.ok THEN r.data = "d1" ELSE unauthorized(r.error)}

\* HttpClient.get up to its await: the transport call is made, its request
\* interceptor has not run yet
GetSent(c) ==
    /\ FreeSlot(c)
    /\ \E co \in SentCacheOpts, thrown \in OnSuccessOutcomes :
         LET requestId == resolveRequestId("get", Url, None, now)
             registered == Register(c, requestId, co)
             key == cacheKeyOf(co, Url)
             cachedData == IF cacheEnabled(co) THEN cacheGet(cache, key, now) ELSE None
             p == The(probe)
             issued == [p EXCEPT !.under[c] = AuthorizationNow,
                                 !.sent[c] = None,
                                 !.torn = IF epoch.removeItem >= 1 THEN @ \cup {c}
                                          ELSE @ \ {c}]
         IN IF cacheEnabled(co) /\ Truthy(cachedData)
            THEN \* cache hit: no transport call, no interceptor
                 /\ cancelTokens' = MapDelete(RegisterMap(c, requestId), requestId)
                 /\ calls' = [registered EXCEPT
                                 ![c] = cacheHit([@ EXCEPT !.transport = 0],
                                                 The(cachedData), thrown)]
                 /\ cache' = cacheAfterLookup(cache, key, now)
                 /\ probe' = Some(issued)
            ELSE /\ thrown = None
                 /\ cancelTokens' = RegisterMap(c, requestId)
                 /\ calls' = registered
                 /\ cache' = IF cacheEnabled(co) THEN cacheAfterLookup(cache, key, now)
                             ELSE cache
                 /\ probe' = Some([issued EXCEPT !.queued = @ \cup {c}])
    /\ UNCHANGED <<now, isRedirecting, storage, timers, epoch, component>>

\* The request interceptor of the call in slot c, a microtask after get
\* returned: it reads localStorage now.  A call whose token was cancelled
\* in between passes the interceptor and is rejected before it reaches the
\* transport, so that no header is sent for it.
InterceptSent(c) ==
    /\ c \in The(probe).queued
    /\ probe' = Some([The(probe) EXCEPT
                         !.queued = @ \ {c},
                         !.sent[c] = IF calls[c].cancelled THEN None
                                     ELSE AuthorizationNow])
    /\ UNCHANGED <<now, cancelTokens, isRedirecting, storage, cache, calls,
                   timers, epoch, component>>

\* The transport answers a call that has passed its request interceptor
RespondSent(c) ==
    /\ c \notin The(probe).queued
    /\ Answer(c, SentResponses)

\* The redirect timer is a macrotask: it runs when no microtask is
\* waiting
RedirectTimerSent ==
    /\ The(probe).queued = {}
    /\ RedirectTimer

\* The continuation of get after its await
ResumeSent(c) ==
    /\ calls[c].pc = "responded"
    /\ LET call == calls[c]
           r == The(call.response)
       IN IF r.ok
          THEN /\ cache' = IF cacheEnabled(call.cache)
                           THEN cacheSet(cache, cacheKeyOf(call.cache, Url), r.data,
                                         The(call.cache).ttl, now)
                           ELSE cache
               /\ probe' = IF cacheEnabled(call.cache)
                           THEN Some([The(probe) EXCEPT
                                        !.origin[cacheKeyOf(call.cache, Url)] =
                                            Some([under |-> The(probe).under[c],
                                                  sent |-> The(probe).sent[c]])])
                           ELSE probe
               /\ cancelTokens' = MapDelete(cancelTokens, call.requestId)
               /\ \E thrown \in OnSuccessOutcomes :
                    calls' = [calls EXCEPT ![c] = settleSuccess(call, r.data, thrown)]
          ELSE /\ calls' = [calls EXCEPT ![c] = settleFailure(call, r.error)]
               /\ UNCHANGED <<cache, cancelTokens, probe>>
    /\ UNCHANGED <<now, isRedirecting, storage, timers, epoch, component>>

\* The caller drops a settled call
ForgetSent(c) ==
    /\ calls[c].pc = "done"
    /\ c \notin clearActiveRequestsTokens(cancelTokens)
    /\ calls' = [calls EXCEPT ![c] = IdleCall]
    /\ probe' = Some([The(probe) EXCEPT !.under[c] = None, !.sent[c] = None,
                                        !.torn = @ \ {c}])
    /\ UNCHANGED <<now, cancelTokens, isRedirecting, storage, cache, timers,
                   epoch, component>>

InitCredentials ==
    /\ now = 0
    /\ cancelTokens = {}
    /\ isRedirecting = FALSE
    /\ storage \in [nepali_user : {None, Some(UserData)},
                    nepali_app_client : {Some("acme")}]
    /\ cache = NoCache
    /\ calls = [c \in Calls |-> IdleCall]
    /\ timers = <<>>
    /\ epoch = NoEpoch
    /\ probe = Some(NoCredentials)
    /\ component = NoComponent

NextCredentials ==
    \/ \E c \in Calls : GetSent(c)
    \/ \E c \in Calls : InterceptSent(c)
    \/ \E c \in Calls : RespondSent(c)
    \/ \E c \in Calls : ResumeSent(c)
    \/ \E c \in Calls : ForgetSent(c)
    \/ RedirectTimerSent
    \/ Login
    \/ Logout

SpecCredentials == InitCredentials /\ [][NextCredentials]_vars

\* ------------------------------------------------------ calls that settle
\* The dispatcher under the scheduling the runtime gives it: every pending
\* transport call is eventually settled by the transport, and the
\* continuation of an awaited call is eventually run by the event loop.
NextSettling ==
    \/ \E c \in Calls : Get(c)
    \/ \E c \in Calls : Post(c)
    \/ \E c \in Calls : Respond(c)
    \/ \E c \in Calls : Resume(c)
    \/ \E c \in Calls : Forget(c)
    \/ CancelRequest

Fairness ==
    \A c \in Calls : WF_vars(Respond(c)) /\ WF_vars(Resume(c))

SpecSettling == Init /\ [][NextSettling]_vars /\ Fairness

\* ------------------------------------------------------ the Redux adapter
\* TaskListWithRedux.fetchData on top of the dispatcher: startLoading(key),
\* createApiCallbacks(key), then a get without options whose URL carries
\* the filter.  probe keeps the api slice of the store (api), the number of
\* fetches issued (fetches), for every call slot the number of its fetch
\* (seq), and the fetch number and response of the most recently issued
\* call among those that have succeeded (best).
MaxFetches == 3      \* fetches a component issues

API_KEY == "taskList"
TaskSetUrls == {"/tasks/task-sets/filtered?page=1", "/tasks/task-sets/filtered?page=2"}

\* apiSlice: initialState and the reducers
initialState ==
    [loading |-> [k \in {} |-> FALSE], errors |-> [k \in {} |-> None],
     data |-> [k \in {} |-> ""]]

assign(record, key, value) ==
    [k \in DOMAIN record \cup {key} |-> IF k = key THEN value ELSE record[k]]

setLoading(state, key, loading) == [state EXCEPT !.loading = assign(@, key, loading)]
setError(state, key, error) == [state EXCEPT !.errors = assign(@, key, error)]
setData(state, key, data) == [state EXCEPT !.data = assign(@, key, data)]

\* delete record[key]
remove(record, key) == [k \in DOMAIN record \ {key} |-> record[k]]

clearApiState(state, key) ==
    [loading |-> remove(state.loading, key), errors |-> remove(state.errors, key),
     data |-> remove(state.data, key)]
resetApiState(state) == initialState

\* useReduxApi.isLoading and getData
isLoading(state, key) == IF key \in DOMAIN state.loading THEN state.loading[key] ELSE FALSE
getData(state, key) ==
    IF key \in DOMAIN state.data /\ Truthy(Some(state.data[key]))
    THEN Some(state.data[key]) ELSE None

\* The callbacks of createApiCallbacks(key), applied to the store in the
\* order the dispatcher invoked them for the settled call
RECURSIVE dispatchCallbacks(_, _, _, _)
dispatchCallbacks(state, key, call, i) ==
    IF i > Len(call.invoked) THEN state
    ELSE LET after ==
                 CASE call.invoked[i] = "onSuccess" ->
                          setError(setData(state, key, call.onSuccess[Len(call.onSuccess)]),
                                   key, None)
                   [] call.invoked[i] = "onError" ->
                          setError(state, key,
                                   Some(call.onError[Len(call.onError)].message))
                   [] call.invoked[i] = "onFinally" ->
                          setLoading(state, key, FALSE)
         IN dispatchCallbacks(after, key, call, i + 1)

NoFetches ==
    [op |-> "api", api |-> initialState, fetches |-> 0,
     seq |-> [c \in Calls |-> 0], best |-> None]

\* TaskListWithRedux.fetchData up to the await of the dispatcher's get
FetchData(c) ==
    /\ FreeSlot(c)
    /\ The(probe).fetches < MaxFetches
    /\ \E url \in TaskSetUrls :
         LET requestId == resolveRequestId("get", url, None, now)
             p == The(probe)
         IN /\ cancelTokens' = RegisterMap(c, requestId)
            /\ calls' = Register(c, requestId, None)
            /\ probe' = Some([p EXCEPT !.api = setLoading(@, API_KEY, TRUE),
                                       !.fetches = @ + 1,
                                       !.seq[c] = p.fetches + 1])
    /\ UNCHANGED <<now, isRedirecting, storage, cache, timers, epoch, component>>

\* The continuation of the get after its await, with the callbacks of
\* createApiCallbacks, which dispatch an action to the store and return
ResumeFetch(c) ==
    /\ calls[c].pc = "responded"
    /\ LET call == calls[c]
           r == The(call.response)
           p == The(probe)
           settled == IF r.ok THEN settleSuccess(call, r.data, None)
                      ELSE settleFailure(call, r.error)
           newer == r.ok /\ (p.best = None \/ The(p.best).seq < p.seq[c])
       IN /\ cancelTokens' = IF r.ok THEN MapDelete(cancelTokens, call.requestId)
                             ELSE cancelTokens
          /\ calls' = [calls EXCEPT ![c] = settled]
          /\ probe' = Some([p EXCEPT
                              !.api = dispatchCallbacks(@, API_KEY, settled, 1),
                              !.best = IF newer
                                       THEN Some([seq |-> p.seq[c], data |-> r.data])
                                       ELSE @])
    /\ UNCHANGED <<now, isRedirecting, storage, cache, timers, epoch, component>>

\* store.dispatch(clearApiState(key)) and store.dispatch(resetApiState())
ClearApiState ==
    /\ probe' = Some([The(probe) EXCEPT !.api = clearApiState(@, API_KEY)])
    /\ UNCHANGED <<now, cancelTokens, isRedirecting, storage, cache, calls,
                   timers, epoch, component>>

ResetApiState ==
    /\ probe' = Some([The(probe) EXCEPT !.api = resetApiState(@)])
    /\ UNCHANGED <<now, cancelTokens, isRedirecting, storage, cache, calls,
                   timers, epoch, component>>

InitRedux ==
    /\ now = 0
    /\ cancelTokens = {}
    /\ isRedirecting = FALSE
    /\ storage = [nepali_user |-> Some(UserData), nepali_app_client |-> Some("acme")]
    /\ cache = NoCache
    /\ calls = [c \in Calls |-> IdleCall]
    /\ timers = <<>>
    /\ epoch = NoEpoch
    /\ probe = Some(NoFetches)
    /\ component = NoComponent

NextRedux ==
    \/ \E c \in Calls : FetchData(c)
    \/ \E c \in Calls : Respond(c)
    \/ \E c \in Calls : ResumeFetch(c)
    \/ \E c \in Calls : Forget(c)
    \/ ClearApiState
    \/ ResetApiState
    \/ Tick

SpecRedux == InitRedux /\ [][NextRedux]_vars

\* =========================================================== properties
\* C1: between two resets of the session-expiry flag the teardown runs
\* exactly once, whatever the number of 401 responses.  epoch counts, since
\* the last reset, the 401 responses observed and each step of the teardown:
\* every step has run at most once, all steps have run equally often, and
\* as soon as one 401 has been observed they have run once and the flag is
\* set; while no 401 has been observed none has run.
TeardownOncePerEpoch ==
    /\ epoch.removeItem <= 1
    /\ epoch.toast = epoch.removeItem
    /\ epoch.clearActiveRequests = epoch.removeItem
    /\ epoch.setTimeout = epoch.removeItem
    /\ epoch.unauthorized >= 1 => epoch.removeItem = 1 /\ isRedirecting
    /\ epoch.unauthorized = 0 => epoch.removeItem = 0
    /\ isRedirecting => epoch.removeItem = 1

\* Two 401 responses were observed since the last reset, one teardown ran
SecondUnauthorizedIgnored ==
    /\ epoch.unauthorized = 2
    /\ epoch.removeItem = 1
    /\ isRedirecting

\* A step in which call c is issued
Issued(c) == calls[c].pc = "idle" /\ calls'[c].pc # "idle"

OneHandlePerId == \A p, q \in cancelTokens : p[1] = q[1] => p = q

\* Every handle that leaves the registry in the step that issues a call has
\* been cancelled, and a call that goes on to its transport call leaves the
\* registry with its own handle under its identifier and no other.
SupersedeStep ==
    \A c \in Calls : Issued(c) =>
        /\ \A p \in cancelTokens \ cancelTokens' :
             calls[p[2]].pc = "pending" => calls'[p[2]].cancelled
        /\ calls'[c].pc = "pending" =>
             /\ <<calls'[c].requestId, c>> \in cancelTokens'
             /\ \A p \in cancelTokens :
                  p[1] = calls'[c].requestId => p \notin cancelTokens'

\* C2: the registry holds at most one handle per request identifier in
\* every reachable state, and a get, post, put or delete issued under an
\* identifier that is registered cancels and removes the registered handle
\* and then stores its own.
OneHandlePerIdentifier == []OneHandlePerId /\ [][SupersedeStep]_vars

\* A pending call whose token was cancelled by a later call issued under
\* the same identifier, which now holds the registry entry
Superseded ==
    \E c, d \in Calls :
        /\ c # d
        /\ calls[d].pc = "pending" /\ calls[d].cancelled
        /\ calls[c].pc = "pending" /\ calls[c].requestId = calls[d].requestId
        /\ cancelTokens = {<<calls[c].requestId, c>>}

\* How a settled call ended
Settled(c) == calls[c].pc = "done"
\* The transport promise rejected with a cancellation
CancelledResponse(response) ==
    response # None /\ ~The(response).ok /\ The(response).error.isCancel
SettledCancelled(c) == Settled(c) /\ CancelledResponse(calls[c].response)
SettledByFailure(c) ==
    /\ Settled(c) /\ calls[c].response # None
    /\ ~The(calls[c].response).ok
    /\ ~isCancel(The(calls[c].response).error)

\* C3: of two calls issued with the same explicit requestId, the second
\* before the first has settled, the first settles as Cancelled.  A call
\* that settles while the registry holds another call's handle under its
\* explicit identifier is such a first call: the entry was stored after its
\* own.
SupersededSettlesCancelledStep ==
    \A c \in Calls :
        ( /\ Unsettled(c) /\ calls'[c].pc = "done"
          /\ calls[c].requestId = <<"list:123">>
          /\ \E d \in Calls \ {c} : <<calls[c].requestId, d>> \in cancelTokens )
        => /\ CancelledResponse(calls'[c].response)
           /\ The(calls'[c].result).kind = "throw"
SupersededSettlesCancelled == [][SupersededSettlesCancelledStep]_vars

\* C4: a call that settles without being cancelled, by transport success,
\* cache hit or a failure other than cancellation, has invoked onFinally
\* exactly once, and not before it settles.
FinallyOnceUnlessCancelled ==
    \A c \in Calls :
        /\ Settled(c) /\ ~SettledCancelled(c) => calls[c].onFinally = 1
        /\ Unsettled(c) => calls[c].onFinally = 0

\* C5: a call that settles as Cancelled invokes none of onSuccess, onError
\* and onFinally.
CancelledInvokesNoCallback ==
    \A c \in Calls :
        SettledCancelled(c) =>
            /\ calls[c].onSuccess = <<>>
            /\ calls[c].onError = <<>>
            /\ calls[c].onFinally = 0

\* C6: a cancelled call rejects with the cancellation signal, never invokes
\* onError, and its rejection value is not an ApiError.
CancelledRejectsWithSignal ==
    \A c \in Calls :
        SettledCancelled(c) =>
            /\ calls[c].onError = <<>>
            /\ calls[c].onSuccess = <<>>
            /\ The(calls[c].result).kind = "throw"
            /\ DOMAIN The(calls[c].result).error # {"message", "status", "data"}
            /\ calls[c].result = Thrown(The(calls[c].response).error)

\* A call cancelled by a later call under its identifier has rejected
SupersededHasRejected ==
    \E c, d \in Calls :
        /\ c # d
        /\ SettledCancelled(d) /\ calls[d].result = Thrown(The(calls[d].response).error)
        /\ Unsettled(c) /\ <<calls[c].requestId, c>> \in cancelTokens

\* C7: a call whose transport call fails for a reason other than
\* cancellation invokes onError exactly once with the normalized error, does
\* not invoke onSuccess, and rejects with that same ApiError.
FailureNormalized ==
    \A c \in Calls :
        SettledByFailure(c) =>
            /\ Len(calls[c].onError) = 1
            /\ DOMAIN calls[c].onError[1] = {"message", "status", "data"}
            /\ calls[c].onError[1] = handleError(The(calls[c].response).error)
            /\ calls[c].onSuccess = <<>>
            /\ The(calls[c].result).kind = "throw"
            /\ The(calls[c].result).error = calls[c].onError[1]

\* A call rejected with the normalized error of a 401 response with a detail
UnauthorizedNormalized ==
    \E c \in Calls :
        /\ SettledByFailure(c)
        /\ calls[c].onError =
             <<[message |-> "token expired", status |-> Some(401),
                data |-> Some([detail |-> Some("token expired")])]>>
        /\ calls[c].result = Thrown(calls[c].onError[1])

\* C8: handleError, for a transport failure with a response, yields the
\* response's status and body and as message the body's detail when
\* present, else the transport message when present, else a fallback; for a
\* failure without a response, no status, no data and the transport message
\* or a fallback.  A detail or message is present when it is not empty.
Present(o) == o # None /\ o # Some("")
NormalizationAsSpecified ==
    (probe # None /\ The(probe).op = "handleError") =>
        LET error == The(probe).error
            apiError == The(probe).ret
        IN IF error.response # None
           THEN LET response == The(error.response)
                    detail == IF response.data = None THEN None
                              ELSE The(response.data).detail
                IN /\ apiError.status = Some(response.status)
                   /\ apiError.data = response.data
                   /\ Present(detail) => apiError.message = The(detail)
                   /\ ~Present(detail) /\ Present(error.message)
                        => apiError.message = The(error.message)
                   /\ ~Present(detail) /\ ~Present(error.message)
                        => apiError.message = "An error occurred"
           ELSE /\ apiError.status = None
                /\ apiError.data = None
                /\ Present(error.message) => apiError.message = The(error.message)
                /\ ~Present(error.message)
                     => apiError.message \in {"An error occurred", "An unknown error occurred"}

\* handleError was given a 401 response with a detail and a transport message
NormalizedDetailOverMessage ==
    /\ probe # None
    /\ The(probe).op = "handleError"
    /\ The(probe).error.message = Some("Network Error")
    /\ The(probe).error.response =
         Some([status |-> 401, data |-> Some([detail |-> Some("token expired")])])
    /\ The(probe).ret.message = "token expired"

\* A call that settles after its transport call succeeded, or by a cache
\* hit, has invoked onSuccess once with the response's body, or with the
\* value the cache held under its key, has not invoked onError, and returns
\* that value.
SuccessReportedStep ==
    \A c \in Calls :
        /\ ( /\ calls[c].pc = "responded" /\ calls'[c].pc = "done"
             /\ The(calls[c].response).ok )
           => /\ calls'[c].onSuccess = <<The(calls[c].response).data>>
              /\ calls'[c].onError = <<>>
              /\ The(calls'[c].result).kind = "return"
              /\ The(calls'[c].result).value = The(calls[c].response).data
        /\ (Issued(c) /\ calls'[c].pc = "done")
           => /\ cacheGet(cache, <<"K">>, now) # None
              /\ calls'[c].onSuccess = <<The(cacheGet(cache, <<"K">>, now))>>
              /\ calls'[c].onError = <<>>
              /\ The(calls'[c].result).kind = "return"
              /\ The(calls'[c].result).value = The(cacheGet(cache, <<"K">>, now))

\* C9: a call that succeeds without being cancelled, by transport success or
\* cache hit, invokes onSuccess exactly once with the result, does not
\* invoke onError, and returns that same result.
SuccessReported == [][SuccessReportedStep]_vars

\* C10: for an entry stored at time s with TTL t, get and has at time s + d
\* return the value, or true, exactly when d < t.
ReturnedExactlyWithinTtl ==
    (probe # None /\ The(probe).op \in {"get", "has"} /\ The(probe).entry # None) =>
        LET entry == The(The(probe).entry)
            d == The(probe).at - entry.timestamp
            t == entry.expiresAt - entry.timestamp
        IN IF The(probe).op = "get"
           THEN (The(probe).ret = Some(entry.data)) <=> (d < t)
           ELSE The(probe).ret <=> (d < t)

\* Two params objects with the same name/value pairs
SamePairs(ps, qs) ==
    {ps[i] : i \in DOMAIN ps} = {qs[i] : i \in DOMAIN qs}

\* C11: generateKey depends only on the URL and the set of name/value pairs
\* of params, not on the order the names were inserted in; with params
\* absent it returns the URL alone.
KeyIgnoresInsertionOrder ==
    (probe # None /\ The(probe).op = "generateKey") =>
        LET params == The(probe).params
            key == The(probe).ret
        IN IF params = None
           THEN key = <<The(probe).url>>
           ELSE \A qs \in ParamObjects :
                    SamePairs(qs, The(params)) =>
                        generateKey(The(probe).url, Some(qs)) = key

\* generateKey was given page before id and listed id before page
KeyOfReversedParams ==
    /\ probe # None
    /\ The(probe).op = "generateKey"
    /\ The(probe).params = Some(<< <<"page", 2>>, <<"id", 1>> >>)
    /\ The(probe).ret = <<Url, << <<"id", 1>>, <<"page", 2>> >> >>

\* The step settles call c
Settles(c) == calls[c].pc # "done" /\ calls'[c].pc = "done"

\* An entry created or overwritten in a step was written by the
\* continuation of a call whose transport call succeeded and whose options
\* asked for caching without bypass, under that call's key and with that
\* call's result; a step that settles a call with an error or as Cancelled
\* leaves the cache as it was.
CacheWriteStep ==
    /\ \A k \in DOMAIN cache' :
         (k \notin DOMAIN cache \/ cache'[k] # cache[k]) =>
             \E c \in Calls :
                 /\ calls[c].pc = "responded" /\ Settles(c)
                 /\ The(calls[c].response).ok
                 /\ calls[c].cache # None
                 /\ ~The(calls[c].cache).bypass
                 /\ k = <<The(calls[c].cache).key>>
                 /\ cache'[k].data = The(calls[c].response).data
                 /\ The(calls'[c].result).kind = "return"
    /\ \A c \in Calls :
         (Settles(c) /\ calls'[c].response # None /\ ~The(calls'[c].response).ok)
             => cache' = cache

\* C12: the dispatcher writes a cache entry only on the success path of a
\* read that asked for caching and did not set bypass; a call that settles
\* with an error or as Cancelled creates or overwrites no entry.
CacheWrittenOnSuccessOnly == [][CacheWriteStep]_vars

\* A step that issues call c and settles it: the cache-hit path of get
ServedFromCache(c) == Issued(c) /\ calls'[c].pc = "done"

\* A call served from the cache has issued no transport call, has left no
\* handle of its own in the registry, has invoked onSuccess with the cached
\* value and then onFinally, and has returned the cached value, all in the
\* step that issued it.
CacheHitShortcutStep ==
    \A c \in Calls :
        ServedFromCache(c) =>
            LET cachedData == cacheGet(cache, <<"K">>, now)
            IN /\ cachedData # None
               /\ calls'[c].transport = 0
               /\ calls'[c].response = None
               /\ c \notin clearActiveRequestsTokens(cancelTokens')
               /\ calls'[c].invoked = <<"onSuccess", "onFinally">>
               /\ calls'[c].onSuccess = <<The(cachedData)>>
               /\ calls'[c].onFinally = 1
               /\ calls'[c].onError = <<>>
               /\ calls'[c].result = Returned(The(cachedData))

\* C13: a cacheable, non-bypassed read that takes the cache-hit path issues
\* no transport call, removes the handle it just registered, invokes
\* onSuccess with the cached value and then onFinally before it returns,
\* and returns the cached value.
CacheHitShortcut == [][CacheHitShortcutStep]_vars

\* A call whose transport call is pending and whose handle is not cancelled
InFlight(c) == calls[c].pc = "pending" /\ ~calls[c].cancelled

\* C14: for each request identifier at most one call issued under it has a
\* pending transport call whose handle has not been cancelled.
OneInFlightPerIdentifier ==
    \A c, d \in Calls :
        (c # d /\ InFlight(c) /\ InFlight(d)) =>
            calls[c].requestId # calls[d].requestId

\* The step issues call d, which cancels the handle of the in-flight call c
Supersedes(d, c) ==
    /\ c # d
    /\ Issued(d)
    /\ InFlight(c) /\ calls'[c].cancelled

\* C15: a call superseded while in flight settles as Cancelled no later
\* than the superseding call settles, also when the superseding call is
\* served from the cache: a call superseded in the step that issues a call
\* served from the cache, which settles in that step, has settled as
\* Cancelled when the step ends.
SupersededByCacheHitSettlesFirstStep ==
    \A c, d \in Calls :
        (Supersedes(d, c) /\ ServedFromCache(d)) =>
            calls'[c].pc = "done" /\ CancelledResponse(calls'[c].response)
SupersededByCacheHitSettlesFirst == [][SupersededByCacheHitSettlesFirstStep]_vars

\* C16: the session-expiry flag changes from true to false only through
\* resetRedirectFlag, called directly or by login: no get, post, put or
\* delete call, no response handling, and no cancelRequest,
\* clearActiveRequests or clearCache resets it.
FlagResetStep ==
    (isRedirecting /\ ~isRedirecting') => (ResetRedirectFlag \/ Login)
FlagResetOnlyByReset == [][FlagResetStep]_vars

\* The flag was reset while the redirect of the last teardown is pending
FlagResetAfterTeardown ==
    /\ ~isRedirecting
    /\ epoch = NoEpoch
    /\ timers # <<>>
    /\ storage.nepali_user = None

\* The step runs the teardown of the response interceptor
Teardown == epoch'.removeItem = epoch.removeItem + 1

\* C17: the request layer changes the credential store only by removing the
\* session record in the teardown, which leaves the tenant identifier as it
\* is; every other change of the store is made by AuthProvider's login or
\* logout.
StoreStep ==
    /\ Teardown =>
         /\ storage'.nepali_user = None
         /\ storage'.nepali_app_client = storage.nepali_app_client
    /\ storage' # storage => (Teardown \/ Login \/ Logout)
StoreChangedOnlyByTeardown == [][StoreStep]_vars

\* The teardown has removed the session record and kept the tenant identifier
SessionRemovedTenantKept ==
    /\ isRedirecting
    /\ epoch.removeItem = 1
    /\ storage.nepali_user = None
    /\ storage.nepali_app_client = Some("acme")

\* C18: clearActiveRequests, called by a caller or by the teardown, cancels
\* every registered handle and leaves the registry empty, so that every
\* call in flight when it ran settles as Cancelled: after the step every
\* call whose transport call was pending is cancelled, but for the call
\* whose response runs the teardown.
CancelAllStep ==
    (ClearActiveRequests \/ Teardown) =>
        /\ cancelTokens' = {}
        /\ \A c \in Calls :
             (calls[c].pc = "pending" /\ calls'[c].pc = "pending")
                 => calls'[c].cancelled
CancelAllCancelsInFlight == [][CancelAllStep]_vars

\* A call answered with a 401 response has no cancellation in its way and,
\* once settled, has given onError the normalized error with status 401 and
\* has rejected with it.
UnauthorizedSettlesAsFailure ==
    \A c \in Calls :
        (calls[c].response # None /\ ~The(calls[c].response).ok
           /\ unauthorized(The(calls[c].response).error)) =>
            /\ ~calls[c].cancelled
            /\ Settled(c) =>
                 /\ calls[c].invoked = <<"onError", "onFinally">>
                 /\ Len(calls[c].onError) = 1
                 /\ calls[c].onError[1].status = Some(401)
                 /\ calls[c].onError[1].message = "token expired"
                 /\ The(calls[c].result).kind = "throw"
                 /\ The(calls[c].result).error = calls[c].onError[1]

\* The call whose response runs the teardown is answered with that 401
\* response, although the teardown cancels its handle with all the others.
TriggerStep ==
    \A c \in Calls :
        (Teardown /\ calls[c].pc = "pending" /\ calls'[c].pc = "responded") =>
            /\ ~CancelledResponse(calls'[c].response)
            /\ unauthorized(The(calls'[c].response).error)
            /\ c \notin clearActiveRequestsTokens(cancelTokens')

\* C19: the call whose 401 response triggers the teardown settles as a
\* normal failure: onError receives the normalized ApiError with status
\* 401 and the promise rejects with it.
TriggerSettlesAsFailure == []UnauthorizedSettlesAsFailure /\ [][TriggerStep]_vars

\* The call that ran the teardown has settled with its 401 error while its
\* handle was registered when the teardown ran
TriggerSettled ==
    \E c \in Calls :
        /\ SettledByFailure(c)
        /\ calls[c].onError[1].status = Some(401)
        /\ epoch.unauthorized = 1 /\ epoch.clearActiveRequests = 1
        /\ isRedirecting

\* The stored record parses to a user object / holds a non-empty field
ParsesToObject(userData) == userData # None /\ "text" \notin DOMAIN The(userData)
Holds(userData, name) == name \in DOMAIN The(userData) /\ The(userData)[name] # ""
Intercepted == probe # None /\ The(probe).op = "request"

\* The interceptor returned, and the header of the config it returned is
\* "{tokenType} {token}" exactly when the record userData parses and holds
\* both a token and a token type, and absent otherwise.
HeaderFrom(userData, ret) ==
    LET complete == /\ ParsesToObject(userData)
                    /\ Holds(userData, "token")
                    /\ Holds(userData, "tokenType")
    IN /\ ret.kind = "return"
       /\ complete =>
            ret.Authorization = Some(<<Some(The(userData).tokenType), " ",
                                       Some(The(userData).token)>>)
       /\ ~complete => ret.Authorization = None

\* C20 as stated: an outgoing call reads the stored session record at issue
\* time; its Authorization header is "{tokenType} {token}" exactly when the
\* record stored when the call was issued parses and holds both a token and
\* a token type, and when that record is absent, malformed or lacks either
\* field the call goes out without the header and without an error.
AuthorizationFromRecordAtIssue ==
    Intercepted => HeaderFrom(The(probe).issued, The(probe).ret)

\* C20 amended: an outgoing call reads the stored session record when its
\* request interceptor runs, after the synchronous code that issued it; its
\* Authorization header is "{tokenType} {token}" exactly when the record
\* stored at that moment parses and holds both a token and a token type,
\* and when it is absent, malformed or lacks either field the call goes
\* out without the header and without an error.
AuthorizationFromStoredRecord ==
    Intercepted => HeaderFrom(The(probe).userData, The(probe).ret)

\* C20 witness: a call issued while no record was stored went out with the
\* header of the record a login stored before its request interceptor ran
HeaderOfLaterLogin ==
    /\ Intercepted
    /\ The(probe).issued = None
    /\ The(probe).userData = Some(UserData)
    /\ The(probe).ret.Authorization # None

\* A call went out with the header read from the record that was stored
\* when its request interceptor ran, and the session has been removed since
HeaderSentThenLoggedOut ==
    /\ Intercepted
    /\ The(probe).ret.Authorization # None
    /\ storage.nepali_user = None

\* The other side: a call went out without the header
\* although a token is stored, the token type being absent
SentWithoutHeader ==
    /\ Intercepted
    /\ The(probe).ret.Authorization = None
    /\ ParsesToObject(The(probe).userData)
    /\ Holds(The(probe).userData, "token")


\* C21: after a call settles by transport success, cache hit or a failure
\* other than cancellation, the registry no longer holds the handle that
\* call registered: every registry entry belongs to a call that has not
\* yet settled.
RegistryHoldsUnsettledOnly ==
    \A p \in cancelTokens : Unsettled(p[2])


\* The step performs a redirect: a pending timer runs
Redirects == Len(timers') < Len(timers)

\* A teardown step shows the notification and schedules one redirect, to
\* /{tenant}/login for the tenant identifier stored when the step begins
\* and to / when none is stored, and performs no redirect itself; no other
\* step shows the notification or schedules a redirect; a step that
\* performs a redirect runs the timer scheduled first and only that one.
RedirectStep ==
    /\ Teardown =>
         /\ epoch'.toast = epoch.toast + 1
         /\ timers' = Append(timers,
                IF storage.nepali_app_client = None THEN <<"/">>
                ELSE <<"/", The(storage.nepali_app_client), "/login">>)
    /\ ~Teardown =>
         /\ epoch'.toast <= epoch.toast
         /\ Len(timers') <= Len(timers)
    /\ Redirects => ~Teardown /\ timers' = Tail(timers)

\* C22: the teardown shows the notification first and performs the
\* redirect only in a later, separately scheduled step, once per teardown;
\* the destination is /{tenant}/login when a tenant identifier is stored at
\* teardown time and / otherwise.
RedirectLaterOncePerTeardown == [][RedirectStep]_vars

\* A teardown that found no tenant identifier has shown the notification
\* and its redirect to / is pending, the tenant identifier having been set
\* since
RedirectToRootPending ==
    /\ isRedirecting
    /\ epoch.toast = 1
    /\ timers = << <<"/">> >>
    /\ storage.nepali_app_client = Some("globex")


\* The step is a direct call of one of the named CacheManager methods
UnitCall(ops) == now' = now /\ probe' # None /\ The(probe').op \in ops

\* get(key) and has(key) leave the map without the entry under key when
\* that entry is expired, the clock having reached its expiry instant, and
\* otherwise as it was; entries under other keys stay as they were either
\* way.
LookupFrameStep ==
    UnitCall({"get", "has"}) =>
        /\ DOMAIN cache' \subseteq DOMAIN cache
        /\ \A k \in DOMAIN cache :
             IF k = The(probe').key /\ cache[k].expiresAt <= now
             THEN k \notin DOMAIN cache'
             ELSE k \in DOMAIN cache' /\ cache'[k] = cache[k]

\* clearExpired leaves exactly the entries get would return, unaltered.
ClearExpiredStep ==
    UnitCall({"clearExpired"}) =>
        /\ DOMAIN cache' = {k \in DOMAIN cache : cacheGet(cache, k, now) # None}
        /\ \A k \in DOMAIN cache' : cache'[k] = cache[k]

\* C23: get and has remove an entry as a side effect exactly when that
\* entry is expired, never remove or alter an unexpired entry or any other
\* key, and clearExpired removes exactly the entries that get would treat
\* as absent.
LookupRemovesExpiredOnly == [][LookupFrameStep /\ ClearExpiredStep]_vars

\* The continuation of a successful cacheable read writes an entry whose
\* lifetime is the ttl of the call's cache options, 0 included, and 5
\* minutes when the options name none; a read is never served from an
\* entry written with ttl 0.
TtlStep ==
    /\ \A c \in Calls :
         ( /\ calls[c].pc = "responded" /\ Settles(c)
           /\ The(calls[c].response).ok
           /\ calls[c].cache # None
           /\ ~The(calls[c].cache).bypass )
         => LET k == <<The(calls[c].cache).key>>
                ttl == The(calls[c].cache).ttl
            IN /\ k \in DOMAIN cache'
               /\ cache'[k].expiresAt - cache'[k].timestamp =
                    IF ttl = None THEN 5 * 60 * 1000 ELSE The(ttl)
    /\ \A c \in Calls :
         ServedFromCache(c) =>
             cache[<<"K">>].expiresAt - cache[<<"K">>].timestamp # 0

\* C24: the TTL applied to a cache write is the caller's ttl whenever one is
\* supplied, including 0, and 5 minutes only when ttl is omitted; a ttl of 0
\* is accepted without error and produces an entry that is already expired,
\* so that no later cacheable read is served from it.
ZeroTtlNeverServed == [][TtlStep]_vars


\* C25: for a get or post call made without cache options and without a
\* requestId, the transport is invoked exactly once with the caller's URL,
\* body and exactly the caller's configuration object, with no field added
\* or removed.
TransportGivenCallersConfig ==
    (probe # None /\ The(probe).op = "transport") =>
        LET p == The(probe)
        IN /\ Len(p.calls) = 1
           /\ p.calls[1].url = p.url
           /\ p.calls[1].data = p.data
           /\ p.calls[1].config = p.config


\* The step unmounts the component / is a call of cancelAllRequests
Unmounts == component.mounted /\ ~component'.mounted
CancelsAll == component'.op = "cancelAllRequests"

\* An unmount, and a call of cancelAllRequests, leaves cancelled every
\* identifier generateRequestId had returned before it that was not
\* cancelled individually.
CleanupStep ==
    (Unmounts \/ CancelsAll) =>
        component.returned \ component.individually \subseteq component'.cancelled

\* C26: every request identifier returned by the component's
\* generateRequestId that has not been cancelled individually is cancelled
\* when the component unmounts or calls cancelAllRequests, whatever the
\* number of re-renders between generating the identifier and the cleanup.
GeneratedIdsCancelledAtCleanup == [][CleanupStep]_vars


\* The verb, path and body each taskService operation is fixed to, for a
\* probe p of that operation
ExpectedDispatch(p) ==
    LET g == p.given
        c == p.dispatched[1]
    IN CASE p.name = "fetchTaskSet" ->
              /\ c.verb = "post" /\ c.args[1] = "/tasks/task-set"
              /\ c.args[2].set_id = g[1]
              /\ c.args[2].include_tasks =
                   (g[2] # None /\ The(g[2]).include_tasks = Some(TRUE))
              /\ c.args[2].include_task_ids = TRUE
         [] p.name = "fetchTask" ->
              /\ c.verb = "post" /\ c.args[1] = "/tasks/task"
              /\ c.args[2].task_id = g[1]
              /\ g[2] # None => c.args[2].fields = The(g[2]).fields
              /\ g[2] = None => c.args[2].fields = None
         [] p.name = "submitTaskAnswers" ->
              /\ c.verb = "put" /\ c.args[1] = "/tasks/task-set/submit"
              /\ c.args[2] = [set_id |-> g[1], answers |-> g[2]]
         [] p.name = "submitTaskAnswer" ->
              /\ c.verb = "post" /\ c.args[1] = "/tasks/task/submit"
              /\ c.args[2] = [task_id |-> g[1], answer |-> g[2], task_type |-> g[3]]
         [] p.name = "fetchUserTaskSets" ->
              /\ c.verb = "get" /\ c.args[1][1] = "/tasks/user/task-sets?"
              /\ c.args[1][2][1] = <<"limit", IF g[1] = None THEN 10 ELSE The(g[1])>>
              /\ c.args[1][2][2] = <<"skip", IF g[2] = None THEN 0 ELSE The(g[2])>>
              /\ Len(c.args[1][2]) = 2 + (IF g[3] = None THEN 0 ELSE Len(The(g[3])))
         [] p.name = "fetchTestScores" ->
              /\ c.verb = "get"
              /\ c.args[1] = <<"/tasks/test_score?task_set_id=", g[1]>>

ReleaseStep ==
    \A c \in Calls :
        (calls[c].pc = "responded" /\ Settles(c)) =>
            \A p \in cancelTokens \ cancelTokens' : p[2] = c

\* C28: when a call completes, the release it performs removes only the
\* handle that call itself registered: it never removes from the registry
\* the handle of a later call registered under the same identifier between
\* the first call's transport settlement and its completion handling.
ReleaseRemovesOwnHandleOnly == [][ReleaseStep]_vars


\* A step of cancelRequest or clearActiveRequests called by a caller:
\* handles leave the registry while no call is issued, answered, completed
\* or dropped and the interceptor does not run
CancelStep ==
    /\ \A c \in Calls : calls'[c].pc = calls[c].pc
    /\ epoch' = epoch
    /\ cancelTokens' # cancelTokens

\* In such a step every identifier whose handle leaves the registry has no
\* entry afterwards, and the call of each removed handle, unsettled as it
\* is, stays unsettled in the step and is cancelled: its transport call
\* will reject with the cancellation.  A call cancelled while its transport
\* call is pending is answered with the cancellation.
CancelRequestStep ==
    /\ CancelStep =>
         \A p \in cancelTokens \ cancelTokens' :
             /\ ~MapHas(cancelTokens', p[1])
             /\ Unsettled(p[2]) =>
                  /\ Unsettled(p[2])'
                  /\ calls'[p[2]].cancelled
    /\ \A c \in Calls :
         (calls[c].cancelled /\ calls'[c].pc = "responded") =>
             CancelledResponse(calls'[c].response)

\* cancelRequest on an identifier without an entry leaves the registry and
\* every call as they are
CancelUnregisteredChangesNothing ==
    \A requestId \in {<<"list:123">>} \cup {<<verb, Url, now>> : verb \in {"get", "post", "put", "delete"}} :
        ~MapHas(cancelTokens, requestId) =>
            /\ cancelRequestMap(cancelTokens, requestId) = cancelTokens
            /\ cancelAll(calls, cancelRequestTokens(cancelTokens, requestId), FALSE) = calls

\* C29: cancelRequest(id) removes the entry for id from the registry before
\* it returns, while the cancelled call settles as Cancelled only in a later
\* step; cancelRequest on an identifier with no registry entry changes
\* nothing and cancels no call.
CancelRemovesNowSettlesLater ==
    []CancelUnregisteredChangesNothing /\ [][CancelRequestStep]_vars


\* The cache holds an entry under the key of the reads that the clock has
\* not passed
UnexpiredEntry == <<"K">> \in DOMAIN cache /\ ~(cache[<<"K">>].expiresAt < now)

\* A get issued with cache options and without bypass is served from the
\* cache, with no transport call, when an unexpired entry is stored under
\* its key, and goes to the transport, once, when none is.
CacheableReadStep ==
    \A c \in Calls :
        Issued(c) =>
            /\ ServedFromCache(c) => calls'[c].transport = 0 /\ UnexpiredEntry
            /\ calls'[c].pc = "pending" =>
                 /\ calls'[c].transport = 1
                 /\ (calls'[c].cache # None /\ ~The(calls'[c].cache).bypass)
                      => ~UnexpiredEntry

\* C30: a cacheable, non-bypassed read is served from the cache without a
\* transport call exactly when an unexpired entry exists under its key,
\* whatever the cached value is (including 0, false, the empty string and
\* null); otherwise exactly one transport call is issued.
ServedExactlyWhenUnexpired == [][CacheableReadStep]_vars


\* An identifier the dispatcher generated: verb, URL and clock reading
Generated(requestId) == Len(requestId) = 3

\* A step that issues a call leaves every handle registered under a
\* generated identifier in the registry and cancels none of them, and the
\* identifier it generates is held by no other call in flight.
GeneratedIdStep ==
    \A c \in Calls :
        Issued(c) =>
            /\ \A p \in cancelTokens :
                 Generated(p[1]) =>
                     /\ p \in cancelTokens'
                     /\ calls'[p[2]].cancelled = calls[p[2]].cancelled
            /\ \A d \in Calls \ {c} :
                 (Generated(calls'[c].requestId) /\ calls'[d].pc = "pending")
                     => calls'[d].requestId # calls'[c].requestId

\* C31: a call issued without an explicit requestId never cancels, and is
\* never cancelled by, another call issued without an explicit requestId:
\* generated identifiers are unique among in-flight calls, including two
\* calls to the same verb and URL issued at the same clock reading.
GeneratedIdsNeverCollide == [][GeneratedIdStep]_vars


\* --------------------------------------------------------------- C32
\* The call in slot c was given a cache option with bypass set.
Bypassing(call) == call.cache # None /\ The(call.cache).bypass

\* The steps of a read with bypass: the step that issues it leaves the cache
\* as it is and issues one transport call, and the step that settles it,
\* with a value or with a failure, leaves the cache as it is.
BypassReadStep ==
    \A c \in Calls :
        /\ (Issued(c) /\ Bypassing(calls'[c]))
               => /\ cache' = cache
                  /\ calls'[c].pc = "pending"
                  /\ calls'[c].transport = 1
        /\ (Settles(c) /\ calls[c].pc = "responded"
              /\ (Bypassing(calls[c]) \/ ~The(calls[c].response).ok))
               => cache' = cache

\* C32: a read with bypass set neither reads nor writes the cache: the step
\* that issues it and the step that settles it, on any outcome, leave the
\* cache contents unchanged, and a transport call is always issued.
BypassLeavesCacheAlone == [][BypassReadStep]_vars

\* A read with bypass has received a successful response while an unexpired
\* entry is cached under its key.
BypassReadAnsweredBesideEntry ==
    \E c \in Calls :
        /\ calls[c].pc = "responded"
        /\ Bypassing(calls[c])
        /\ The(calls[c].response).ok
        /\ calls[c].transport = 1
        /\ cacheHas(cache, cacheKeyOf(calls[c].cache, Url), now)


\* --------------------------------------------------------------- C33
\* The call was issued by post, put or delete: seen in the identifier the
\* dispatcher generated for it.
WriteVerb(call) ==
    Generated(call.requestId) /\ call.requestId[1] \in {"post", "put", "delete"}

\* What a read of `key` would be served from the cache
Served(ch, t) == [key \in {<<"K">>, <<Url>>} |-> cacheGet(ch, key, t)]

\* The steps of a post, put or delete: the step that issues it and the step
\* that settles it, with a value or with a failure, leave the cache as it
\* is, so that every entry served before the step is served after it.  A
\* post, put or delete given an explicit identifier is recognized at its
\* settlement by carrying no cache option, as none of them ever does.
WriteCallStep ==
    \A c \in Calls :
        /\ (Issued(c) /\ WriteVerb(calls'[c]))
               => /\ cache' = cache
                  /\ Served(cache', now') = Served(cache, now)
                  /\ calls'[c].transport = 1
        /\ (Settles(c) /\ calls[c].pc = "responded"
              /\ (WriteVerb(calls[c]) \/ calls[c].cache = None))
               => /\ cache' = cache
                  /\ Served(cache', now') = Served(cache, now)

\* C33: post, put and delete leave the response cache unchanged on every
\* outcome: neither the step that issues such a call nor the step that
\* settles it reads, writes or invalidates an entry, so an entry cached by
\* a read before the write is still served after it.
WritesLeaveCacheAlone == [][WriteCallStep]_vars

\* A post, put or delete has received a successful response while an entry
\* cached by an earlier read is still served.
WriteAnsweredBesideEntry ==
    \E c \in Calls :
        /\ calls[c].pc = "responded"
        /\ WriteVerb(calls[c])
        /\ The(calls[c].response).ok
        /\ Truthy(cacheGet(cache, <<"K">>, now))


\* --------------------------------------------------------------- C34
\* The transport call of c resolved and c has settled.
SettledAfterSuccess(c) ==
    /\ calls[c].pc = "done"
    /\ calls[c].response # None
    /\ The(calls[c].response).ok

\* C34: for every call at most one of onSuccess and onError has been
\* invoked, and a call whose transport call succeeded has not rejected,
\* whether its onSuccess callback returned or threw.
OneCallbackAndSuccessReturns ==
    \A c \in Calls :
        /\ Len(calls[c].onSuccess) = 0 \/ Len(calls[c].onError) = 0
        /\ SettledAfterSuccess(c) => The(calls[c].result).kind = "return"


\* --------------------------------------------------------------- C35
\* The key a read with cache options is looked up under
ReadKey == cacheKeyOf(Some([key |-> "K", ttl |-> None, bypass |-> FALSE]), Url)

\* The response cached under the read key was obtained by a call issued
\* under a stored session and sent with its credentials.
CachedUnderSession ==
    /\ The(probe).origin[ReadKey] # None
    /\ The(The(probe).origin[ReadKey]).under # None
    /\ The(The(probe).origin[ReadKey]).sent = The(The(probe).origin[ReadKey]).under

\* A read served from the cache a response that was obtained under a stored
\* session is issued with the credentials of that session stored.
ServedOwnCredentialsStep ==
    \A c \in Calls :
        (ServedFromCache(c) /\ CachedUnderSession) =>
            The(The(probe).origin[ReadKey]).sent = AuthorizationNow

\* C35: a response cached by a read issued under one stored session is
\* never returned to a read issued after that session's credentials were
\* cleared or replaced: every read served from the cache is served a
\* response obtained with the credentials stored when it is issued.
CacheServesOwnSessionOnly == [][ServedOwnCredentialsStep]_vars


\* --------------------------------------------------------------- C36
\* The teardown has removed the session record and no login has stored a
\* new one since: login is the only caller of resetRedirectFlag.
TornDown == epoch.removeItem >= 1

\* The request interceptor of the call in slot c runs in this step.
InterceptorRuns(c) == c \in The(probe).queued /\ c \notin The(probe').queued

\* A call issued after the teardown and before the next login goes out
\* without an Authorization header.
IssuedTornDownStep ==
    \A c \in Calls :
        (InterceptorRuns(c) /\ c \in The(probe).torn) => The(probe').sent[c] = None

\* C36 as stated: from the moment the teardown removes the session record
\* until a login stores a new one, every call issued is sent without an
\* Authorization header.
NoAuthorizationAfterTeardown == [][IssuedTornDownStep]_vars

\* A call whose request interceptor runs after the teardown and before the
\* next login goes out without an Authorization header, the teardown leaves
\* no session record, and only a login ends that period.
TornDownStep ==
    /\ \A c \in Calls :
         (TornDown /\ InterceptorRuns(c)) => The(probe').sent[c] = None
    /\ Teardown => storage'.nepali_user = None
    /\ (TornDown /\ ~TornDown')
           => storage'.nepali_user = Some(UserData) /\ ~isRedirecting'

\* C36 amended: from the moment the teardown removes the session record
\* until a login stores a new one, every call whose request interceptor
\* runs is sent without an Authorization header; a call issued in that
\* period whose interceptor runs after the login carries the new session's
\* header.
NoAuthorizationSentAfterTeardown == [][TornDownStep]_vars

\* After the teardown, and before any login, a call issued in that period
\* has been sent without an Authorization header and awaits its response.
SentBareAfterTeardown ==
    \E c \in Calls :
        /\ TornDown
        /\ c \in The(probe).torn
        /\ c \notin The(probe).queued
        /\ calls[c].pc = "pending"
        /\ ~calls[c].cancelled
        /\ calls[c].transport = 1
        /\ The(probe).sent[c] = None
        /\ \E d \in Calls \ {c} : The(probe).sent[d] # None

\* --------------------------------------------------------------- C37
\* The transport call of c is answered with 401 in this step.
Receives401(c) ==
    /\ calls[c].pc = "pending"
    /\ calls'[c].pc = "responded"
    /\ ~The(calls'[c].response).ok
    /\ unauthorized(The(calls'[c].response).error)

\* A 401 answer to a call that was issued and sent while no session record
\* was stored runs no step of the teardown.
BareUnauthorizedStep ==
    \A c \in Calls :
        (/\ Receives401(c)
         /\ The(probe).under[c] = None
         /\ The(probe).sent[c] = None
         /\ ~isRedirecting)
            => /\ ~isRedirecting'
               /\ epoch'.toast = epoch.toast
               /\ epoch'.clearActiveRequests = epoch.clearActiveRequests
               /\ epoch'.setTimeout = epoch.setTimeout
               /\ cancelTokens' = cancelTokens
               /\ timers' = timers
               /\ \A d \in Calls \ {c} : calls'[d] = calls[d]

\* C37: a 401 response to a call issued while no session record is stored
\* does not run the teardown sequence: no notification, no cancellation of
\* other in-flight calls, no redirect, and the session-expiry flag stays
\* false.
NoTeardownWithoutSession == [][BareUnauthorizedStep]_vars


\* --------------------------------------------------------------- C38
\* The call in slot c has rejected with the cancellation signal.
RejectedCancelled(c) ==
    /\ calls[c].pc = "done"
    /\ The(calls[c].result).kind = "throw"
    /\ "isCancel" \in DOMAIN The(calls[c].result).error
    /\ The(calls[c].result).error.isCancel

\* C38: provided every transport call eventually resolves, fails or
\* observes its cancellation, every issued call eventually settles, and a
\* call whose handle was cancelled while its transport call was pending
\* settles by rejecting with the cancellation signal.
IssuedCallsSettle ==
    \A c \in Calls :
        /\ (calls[c].pc = "pending") ~> (calls[c].pc = "done")
        /\ (calls[c].pc = "pending" /\ calls[c].cancelled) ~> RejectedCancelled(c)

\* A call has rejected with the cancellation signal beside a call that has
\* returned a value.
CancelledBesideReturned ==
    \E c, d \in Calls :
        /\ RejectedCancelled(c)
        /\ calls[c].transport = 1
        /\ calls[d].pc = "done"
        /\ The(calls[d].result).kind = "return"


\* --------------------------------------------------------------- C39
\* A call started by fetchData is in flight.
FetchInFlight == \E c \in Calls : Unsettled(c)

\* The store holds loading state, or data, under the key: no clearApiState
\* or resetApiState has removed it since it was last written.
LoadingKept == API_KEY \in DOMAIN The(probe).api.loading
DataKept == API_KEY \in DOMAIN The(probe).api.data

\* C39: in the Redux adapter, whenever a call started with startLoading(K)
\* and the callbacks of createApiCallbacks(K) is still in flight loading[K]
\* is true, and once all calls for K have settled data[K] holds the result
\* of the most recently issued successful call; both are stated of a store
\* whose state under K has not been cleared.
StoreFollowsOverlappingCalls ==
    /\ (FetchInFlight /\ LoadingKept) => isLoading(The(probe).api, API_KEY)
    /\ (~FetchInFlight /\ The(probe).best # None /\ DataKept)
           => getData(The(probe).api, API_KEY) = Some(The(The(probe).best).data)

====
